---------------------------- MODULE Spec2Model ----------------------------
(***************************************************************************)
(* State-machine model of the three command-line scripts of the            *)
(* repository:                                                             *)
(*   scripts/first_run_setup.py   (setup orchestrator,   prog = "setup")   *)
(*   scripts/google_auth_setup.py (provider configurator, prog = "config") *)
(*   scripts/verify_firebase.py   (verifier,             prog = "verify")  *)
(*                                                                         *)
(* Text (environment values, file contents) is a sequence of tokens: the   *)
(* punctuation of JSON, a white-space token, and string / number / null    *)
(* literals.  json.loads and json.dump are modelled as a parser and a      *)
(* printer over such sequences; JSON values are restricted to objects of   *)
(* scalars, arrays of scalars and scalars.                                 *)
(***************************************************************************)
EXTENDS Integers, Sequences, FiniteSets

(***************************************************************************)
(* Text and JSON                                                           *)
(***************************************************************************)

\* White-space tokens: a blank, and the line break + indentation that
\* json.dump(indent=2) emits.
WsTokens == {" ", "\n"}

PunctTokens == {"{", "}", "[", "]", ":", ","}

\* Number literals of the inputs.
NumTokens == {"0"}

\* The literals true and false.
BoolTokens == {"true", "false"}

\* A token no JSON grammar rule accepts.
BadTokens == {"?"}

IsWs(tok) == tok \in WsTokens

\* A string literal: any token that is none of the others and not null.
IsStrTok(tok) ==
    tok \notin (WsTokens \cup PunctTokens \cup NumTokens \cup BoolTokens \cup BadTokens \cup {"null"})

IsScalarTok(tok) == IsStrTok(tok) \/ tok \in NumTokens \/ tok \in BoolTokens \/ tok = "null"

\* A parsed scalar: t is its Python type, s its text.
Atom(tok) ==
    IF tok \in NumTokens THEN [t |-> "num", s |-> tok]
    ELSE IF tok \in BoolTokens THEN [t |-> "bool", s |-> tok]
    ELSE IF tok = "null" THEN [t |-> "null", s |-> ""]
    ELSE [t |-> "str", s |-> tok]

StrAtom(s) == [t |-> "str", s |-> s]

\* Python's None.
None == [t |-> "null", s |-> ""]

\* The token that prints an atom.
AtomTok(a) == IF a.t = "null" THEN "null" ELSE a.s

\* Index of the first non-white-space token of t at or after i (Len(t)+1 if none).
RECURSIVE SkipWs(_, _)
SkipWs(t, i) ==
    IF i > Len(t) THEN Len(t) + 1
    ELSE IF IsWs(t[i]) THEN SkipWs(t, i + 1)
    ELSE i

\* str.strip(): drop leading and trailing white space.
RECURSIVE RStrip(_)
RStrip(t) ==
    IF Len(t) = 0 THEN t
    ELSE IF IsWs(t[Len(t)]) THEN RStrip(SubSeq(t, 1, Len(t) - 1))
    ELSE t

\* Mutant of Strip: the value is used as it is, white space included.
Strip_Kept(t) == t

Strip(t) ==
    LET i == SkipWs(t, 1)
    IN  IF i > Len(t) THEN <<>> ELSE RStrip(SubSeq(t, i, Len(t)))

\* str.startswith('{')
StartsWithBrace(t) == Len(t) > 0 /\ t[1] = "{"

\* A dict is the sequence of its items [k, v] in insertion order, keys unique.
DictHas(d, key) == \E i \in 1..Len(d) : d[i].k = key

DictGet(d, key) ==
    IF DictHas(d, key)
    THEN LET i == CHOOSE j \in 1..Len(d) : d[j].k = key IN d[i].v
    ELSE None

\* d[key] = v: an existing key keeps its position, a new key is appended.
DictSet(d, key, v) ==
    IF DictHas(d, key)
    THEN [i \in 1..Len(d) |-> IF d[i].k = key THEN [k |-> key, v |-> v] ELSE d[i]]
    ELSE Append(d, [k |-> key, v |-> v])

JsonError == [kind |-> "error", items |-> <<>>, atom |-> None]

JsonDict(d) == [kind |-> "dict", items |-> d, atom |-> None]

JsonList(l) == [kind |-> "list", items |-> l, atom |-> None]

JsonScalar(a) == [kind |-> "scalar", items |-> <<>>, atom |-> a]

\* Members of an object from position i on, up to and including the closing brace.
\* Result: [ok, pos (first index after the brace), val (the dict)].
RECURSIVE ParseMembers(_, _, _)
ParseMembers(t, i, acc) ==
    LET bad == [ok |-> FALSE, pos |-> 0, val |-> <<>>]
        k == SkipWs(t, i)
    IN  IF k > Len(t) \/ ~IsStrTok(t[IF k > Len(t) THEN 1 ELSE k]) THEN bad
        ELSE LET c == SkipWs(t, k + 1)
             IN  IF c > Len(t) THEN bad
                 ELSE IF t[c] # ":" THEN bad
                 ELSE LET v == SkipWs(t, c + 1)
                      IN  IF v > Len(t) THEN bad
                          ELSE IF ~IsScalarTok(t[v]) THEN bad
                          ELSE LET acc2 == DictSet(acc, t[k], Atom(t[v]))
                                   n == SkipWs(t, v + 1)
                               IN  IF n > Len(t) THEN bad
                                   ELSE IF t[n] = "}" THEN [ok |-> TRUE, pos |-> n + 1, val |-> acc2]
                                   ELSE IF t[n] = "," THEN ParseMembers(t, n + 1, acc2)
                                   ELSE bad

\* Elements of an array from position i on, up to and including the closing bracket.
RECURSIVE ParseElements(_, _, _)
ParseElements(t, i, acc) ==
    LET bad == [ok |-> FALSE, pos |-> 0, val |-> <<>>]
        v == SkipWs(t, i)
    IN  IF v > Len(t) THEN bad
        ELSE IF ~IsScalarTok(t[v]) THEN bad
        ELSE LET acc2 == Append(acc, Atom(t[v]))
                 n == SkipWs(t, v + 1)
             IN  IF n > Len(t) THEN bad
                 ELSE IF t[n] = "]" THEN [ok |-> TRUE, pos |-> n + 1, val |-> acc2]
                 ELSE IF t[n] = "," THEN ParseElements(t, n + 1, acc2)
                 ELSE bad

\* One JSON value starting at the first non-white-space token at or after i.
\* Result: [ok, pos, val (a Json* record)].
ParseValue(t, i) ==
    LET bad == [ok |-> FALSE, pos |-> 0, val |-> JsonError]
        s == SkipWs(t, i)
    IN  IF s > Len(t) THEN bad
        ELSE IF t[s] = "{"
             THEN LET e == SkipWs(t, s + 1)
                  IN  IF e > Len(t) THEN bad
                      ELSE IF t[e] = "}" THEN [ok |-> TRUE, pos |-> e + 1, val |-> JsonDict(<<>>)]
                      ELSE LET m == ParseMembers(t, s + 1, <<>>)
                           IN  IF m.ok THEN [ok |-> TRUE, pos |-> m.pos, val |-> JsonDict(m.val)]
                               ELSE bad
        ELSE IF t[s] = "["
             THEN LET e == SkipWs(t, s + 1)
                  IN  IF e > Len(t) THEN bad
                      ELSE IF t[e] = "]" THEN [ok |-> TRUE, pos |-> e + 1, val |-> JsonList(<<>>)]
                      ELSE LET m == ParseElements(t, s + 1, <<>>)
                           IN  IF m.ok THEN [ok |-> TRUE, pos |-> m.pos, val |-> JsonList(m.val)]
                               ELSE bad
        ELSE IF IsScalarTok(t[s]) THEN [ok |-> TRUE, pos |-> s + 1, val |-> JsonScalar(Atom(t[s]))]
        ELSE bad

\* json.loads / json.load: the whole text is one value between optional white
\* space; anything else is a JSONDecodeError (kind "error").
json_loads(t) ==
    LET r == ParseValue(t, 1)
    IN  IF ~r.ok THEN JsonError
        ELSE IF SkipWs(t, r.pos) <= Len(t) THEN JsonError
        ELSE r.val

\* json.dump(d, f, indent=2) of a dict: one item per line, ": " after each key.
RECURSIVE DumpItems(_, _)
DumpItems(d, i) ==
    IF i > Len(d) THEN <<"\n", "}">>
    ELSE <<"\n", d[i].k, ":", " ", AtomTok(d[i].v)>>
         \o (IF i < Len(d) THEN <<",">> ELSE <<>>)
         \o DumpItems(d, i + 1)

json_dump(d) ==
    IF Len(d) = 0 THEN <<"{", "}">> ELSE <<"{">> \o DumpItems(d, 1)

(***************************************************************************)
(* Configuration constants and the texts the scripts are run on            *)
(***************************************************************************)

PROJECT_ID == "digital-workshop-hub"

CREDENTIALS_DIR == "~/.config/gcloud"

\* A path is a text of one token.
CREDENTIALS_FILE == <<"~/.config/gcloud/digital-workshop-hub-credentials.json">>

SENTINEL_DIR == "~/.config/dev-od-computer"

SENTINEL_FILE == <<"~/.config/dev-od-computer/setup_complete">>

FIREBASE_PROJECT_DIR == "~/repos/digital-workshop-hub"

SAJ == "GOOGLE_SERVICE_ACCOUNT_JSON"

GAC == "GOOGLE_APPLICATION_CREDENTIALS"

OAUTH_ID == "GOOGLE_OAUTH_CLIENT_ID"

OAUTH_SECRET == "GOOGLE_OAUTH_CLIENT_SECRET"

required_fields == <<"type", "project_id", "private_key", "client_email">>

\* Permission bits of a file; S_IRUSR | S_IWUSR is {"ur", "uw"}.
AllBits == {"ur", "uw", "gr", "gw", "or", "ow"}

OwnerRW == {"ur", "uw"}

\* The text {"k1":v1,"k2":v2,...} of a sequence of <<key, value token>> pairs.
RECURSIVE MembersText(_, _)
MembersText(p, i) ==
    IF i > Len(p) THEN <<>>
    ELSE <<p[i][1], ":", p[i][2]>>
         \o (IF i < Len(p) THEN <<",">> ELSE <<>>)
         \o MembersText(p, i + 1)

ObjText(p) == <<"{">> \o MembersText(p, 1) \o <<"}">>

Without(p, key) == SelectSeq(p, LAMBDA e : e[1] # key)

\* The items of a well-formed service-account key with the given key material.
KeyPairs(key, email) ==
    << <<"type", "service_account">>, <<"project_id", PROJECT_ID>>,
       <<"private_key", key>>, <<"client_email", email>> >>

Unset == [set |-> FALSE, val |-> <<>>]

Value(text) == [set |-> TRUE, val |-> text]

\* At most this many white-space tokens lead or trail an input text.
MaxPad == 1

RECURSIVE Pad(_)
Pad(n) == IF n = 0 THEN <<>> ELSE <<" ">> \o Pad(n - 1)

Padded(text) == {Pad(a) \o text \o Pad(b) : a \in 0..MaxPad, b \in 0..MaxPad}

\* JSON texts built on one key: well-formed ones, each required field missing,
\* a wrong or non-string type, a repeated key, an extra field, and texts that
\* are not an object or not JSON at all.
JsonTexts(key, email) ==
    LET full == KeyPairs(key, email)
    IN  Padded(ObjText(full))
        \cup {ObjText(Append(full, <<"private_key_id", "kid">>))}
        \cup {ObjText(Without(full, required_fields[i])) : i \in 1..Len(required_fields)}
        \cup {ObjText(<<<<"type", "authorized_user">>>> \o Without(full, "type"))}
        \cup {ObjText(<<<<"type", "0">>>> \o Without(full, "type"))}
        \cup {ObjText(<<<<"type", "authorized_user">>>> \o full)}
        \cup {ObjText(<<<<"project_id", PROJECT_ID>>, <<"client_email", email>>>>)}
        \cup {<<"{", "type", ":">>, <<"{", "}">>, <<"?">>,
              <<"[", "type", ",", "project_id", ",", "private_key", ",", "client_email", "]">>,
              <<"0">>, <<"type">>}

\* Values of GOOGLE_SERVICE_ACCOUNT_JSON.
SecretInputs == {Unset, Value(<<>>)} \cup {Value(t) : t \in JsonTexts("KEY-A", "sa-a@dwh")}

KeyPath == <<"/keys/sa.json">>

JunkPath == <<"/keys/notes.json">>

MissingPath == <<"/keys/none.json">>

\* Values of GOOGLE_APPLICATION_CREDENTIALS: unset, empty, blank, file paths
\* (existing or not, padded or not), and pasted JSON.
AppCredInputs ==
    {Unset, Value(<<>>), Value(<<" ">>)}
    \cup {Value(t) : t \in {KeyPath, JunkPath, MissingPath, CREDENTIALS_FILE}}
    \cup {Value(<<" ">> \o KeyPath)}
    \cup {Value(t) : t \in JsonTexts("KEY-B", "sa-b@dwh")}

FIREBASE_JSON == <<"~/repos/digital-workshop-hub/firebase.json">>

FIREBASERC == <<"~/repos/digital-workshop-hub/.firebaserc">>

INDEXES_JSON == <<"~/repos/digital-workshop-hub/firestore.indexes.json">>

INDEX_HTML == <<"~/repos/digital-workshop-hub/public/index.html">>

FIRESTORE_RULES == <<"~/repos/digital-workshop-hub/firestore.rules">>

STORAGE_RULES == <<"~/repos/digital-workshop-hub/storage.rules">>

Paths ==
    {CREDENTIALS_FILE, KeyPath, JunkPath, SENTINEL_FILE, FIREBASE_JSON, FIREBASERC, INDEXES_JSON,
     INDEX_HTML, FIRESTORE_RULES, STORAGE_RULES}

NoFile == [exists |-> FALSE, mode |-> {}, content |-> <<>>]

File(mode, content) == [exists |-> TRUE, mode |-> mode, content |-> content]

\* Files outside the canonical path that the inputs name.
OtherFiles(p) ==
    IF p = KeyPath THEN File(OwnerRW, json_dump(json_loads(ObjText(KeyPairs("KEY-F", "sa-f@dwh"))).items))
    ELSE IF p = JunkPath THEN File({"ur", "uw", "gr", "or"}, <<"{", "note", ":", "todo", "}">>)
    ELSE NoFile

\* The canonical credential file before the run: absent, left by an earlier
\* run, or present with other content and wider permissions.
CanonicalBefore ==
    {NoFile,
     File(OwnerRW, json_dump(json_loads(ObjText(KeyPairs("KEY-OLD", "sa-old@dwh"))).items)),
     File({"ur", "uw", "gr", "or"}, <<"{", "}">>)}

\* umask 022 and umask 077, as the bits they clear.
Umasks == {{"gw", "ow"}, {"gr", "gw", "or", "ow"}}

(***************************************************************************)
(* State                                                                   *)
(***************************************************************************)

VARIABLES
    prog,           \* which script runs: "setup", "config" or "verify"
    pc,             \* the statement the script is at
    env,            \* os.environ: variable name -> [set, val]
    fs,             \* the files: path -> [exists, mode, content]
    dirs,           \* the directories that exist
    umask,          \* the permission bits the process's umask clears
    out,            \* what has been printed, in order
    reads,          \* the environment variables read by os.environ.get
    loaded,         \* the [src, text] handed to json.loads
    existsChecked,  \* the paths handed to os.path.exists
    creds_data,     \* the validated dict (local of the discovery functions)
    creds_path,     \* what check_credentials returned (<<>> is None)
    env0,           \* os.environ when the script started
    fs0             \* the files when the script started

credVars == <<env, fs, dirs, umask, out, reads, loaded, existsChecked, creds_data, creds_path, env0, fs0>>

VARIABLES
    net,            \* the HTTP requests sent, in order: [method, url, body, code]
    idp,            \* the remote google.com provider configuration
    idp0,           \* that configuration when the script started
    modules,        \* the Python packages and command-line tools installed
    procs,          \* the subprocesses run, in order
    installs,       \* how many install commands were run
    credentials,    \* what verify_google_auth returned (<<>> is None)
    exitCode        \* the process exit code (-1 while running)

runVars == <<net, idp, idp0, modules, procs, installs, credentials, exitCode>>

VARIABLES
    args,           \* the configurator's parsed command line
    token,          \* what get_access_token returned (<<>> is None)
    status,         \* what check_google_provider_status returned
    success         \* the configurator's result

cfgVars == <<args, token, status, success>>

VARIABLES
    checks,         \* the verifier's results: google_ok, firebase_ok, google_provider_ok
    fs1             \* the files after the first of two scaffold runs

vfyVars == <<checks, fs1>>

vars == <<prog, pc, credVars, runVars, cfgVars, vfyVars>>

Say(log, msg) == Append(log, msg)

(***************************************************************************)
(* Credential discovery: first_run_setup.py, check_credentials             *)
(***************************************************************************)

\* Python's `field in creds_data` on the vocabulary of the inputs: a proper
\* substring relation for `in` on a str.
ProperSubstrings == {<<"private_key", "private_key_id">>}

Contains(j, field) ==
    CASE j.kind = "dict" -> DictHas(j.items, field)
      [] j.kind = "list" -> \E i \in 1..Len(j.items) : j.items[i] = StrAtom(field)
      [] OTHER -> j.atom.s = field \/ <<field, j.atom.s>> \in ProperSubstrings

\* The checks both discovery branches make on the parsed JSON (lines 45-56 and
\* 114-125).  res is "ok", "decode_error" (JSONDecodeError), "missing" (with the
\* field), "wrong_type", or "exception" (a TypeError or AttributeError raised by
\* `in` or .get on a value that is no dict, caught by `except Exception`).
RECURSIVE FirstMissing(_, _)
FirstMissing(j, i) ==
    IF i > Len(required_fields) THEN 0
    ELSE IF ~Contains(j, required_fields[i]) THEN i
    ELSE FirstMissing(j, i + 1)

ValidateKey(j) ==
    IF j.kind = "error" THEN [res |-> "decode_error", field |-> ""]
    ELSE IF j.kind = "scalar" /\ j.atom.t # "str" THEN [res |-> "exception", field |-> ""]
    ELSE LET m == FirstMissing(j, 1)
         IN  IF m # 0 THEN [res |-> "missing", field |-> required_fields[m]]
             ELSE IF j.kind # "dict" THEN [res |-> "exception", field |-> ""]
             ELSE IF DictGet(j.items, "type") # StrAtom("service_account")
                  THEN [res |-> "wrong_type", field |-> ""]
             ELSE [res |-> "ok", field |-> ""]

\* What a failed validation prints; var names the variable in the decode message.
ValidationMessage(v, var) ==
    CASE v.res = "decode_error" -> <<"ERROR: Invalid JSON in", var>>
      [] v.res = "missing" -> <<"ERROR: Invalid service account JSON - missing", v.field>>
      [] v.res = "wrong_type" -> <<"ERROR: JSON is not a service account key">>
      [] OTHER -> <<"ERROR: Could not create credentials file">>

EnvGet(e, name) == e[name]

\* Python's `not value` for the result of os.environ.get.
Falsy(v) == ~v.set \/ v.val = <<>>

\* os.makedirs(CREDENTIALS_DIR, mode=0o700, exist_ok=True)
Makedirs(d, dir) == d \cup {dir}

\* open(path, 'w'): a new file gets 0666 less the umask, an existing one is
\* truncated and keeps its mode.
OpenForWrite(f, path, mask) ==
    [f EXCEPT ![path] = IF f[path].exists THEN File(f[path].mode, <<>>)
                        ELSE File(AllBits \ mask, <<>>)]

\* json.dump(creds_data, f, indent=2) and the close of the with block.
WriteJson(f, path, d) == [f EXCEPT ![path].content = json_dump(d)]

\* Mutant of Chmod: the mode is left as open() made it.
Chmod_Skipped(f, path, bits) == f

\* os.chmod(path, stat.S_IRUSR | stat.S_IWUSR)
Chmod(f, path, bits) == [f EXCEPT ![path].mode = bits]

\* os.environ['GOOGLE_APPLICATION_CREDENTIALS'] = CREDENTIALS_FILE
SetEnv(e, name, text) == [e EXCEPT ![name] = Value(text)]

\* os.path.exists(path)
PathExists(f, path) == path \in DOMAIN f /\ f[path].exists

CreatedMessages(d) ==
    << <<"Created credentials file:", CREDENTIALS_FILE[1]>>,
       <<"  Project ID:", AtomTok(DictGet(d, "project_id"))>>,
       <<"  Service Account:", AtomTok(DictGet(d, "client_email"))>> >>

\* setup_credentials_from_secret, lines 36-56: read the secret, parse, validate.
SecretValidate ==
    /\ pc = "secret"
    /\ reads' = reads \cup {SAJ}
    /\ LET json_content == EnvGet(env, SAJ)
       IN  IF Falsy(json_content)
           THEN /\ pc' = "fallback"
                /\ UNCHANGED <<out, loaded, creds_data>>
           ELSE LET j == json_loads(json_content.val)
                    v == ValidateKey(j)
                    found == Say(out, <<"Found GOOGLE_SERVICE_ACCOUNT_JSON secret">>)
                IN  /\ loaded' = loaded \cup {[src |-> SAJ, text |-> json_content.val]}
                    /\ IF v.res = "ok"
                       THEN /\ out' = found
                            /\ creds_data' = j.items
                            /\ pc' = "secret_mkdir"
                       ELSE /\ out' = Say(found, ValidationMessage(v, SAJ))
                            /\ creds_data' = creds_data
                            /\ pc' = "fallback"
    /\ UNCHANGED <<prog, checks, fs1, env, fs, dirs, umask, existsChecked, creds_path, env0, fs0>>
    /\ UNCHANGED <<runVars, cfgVars>>

\* An I/O error in setup_credentials_from_secret (lines 80-82): the function
\* returns None and check_credentials falls back.
SecretIOError ==
    /\ out' = Say(out, <<"ERROR: Could not create credentials file">>)
    /\ pc' = "fallback"

\* line 59
SecretMakedirs ==
    /\ pc = "secret_mkdir"
    /\ \/ /\ dirs' = Makedirs(dirs, CREDENTIALS_DIR)
          /\ pc' = "secret_open"
          /\ out' = out
       \/ /\ SecretIOError
          /\ dirs' = dirs
    /\ UNCHANGED <<prog, checks, fs1, env, fs, umask, reads, loaded, existsChecked, creds_data, creds_path, env0, fs0>>
    /\ UNCHANGED <<runVars, cfgVars>>

\* line 62
SecretOpen ==
    /\ pc = "secret_open"
    /\ \/ /\ fs' = OpenForWrite(fs, CREDENTIALS_FILE, umask)
          /\ pc' = "secret_dump"
          /\ out' = out
       \/ /\ SecretIOError
          /\ fs' = fs
    /\ UNCHANGED <<prog, checks, fs1, env, dirs, umask, reads, loaded, existsChecked, creds_data, creds_path, env0, fs0>>
    /\ UNCHANGED <<runVars, cfgVars>>

\* line 63
SecretDump ==
    /\ pc = "secret_dump"
    /\ \/ /\ fs' = WriteJson(fs, CREDENTIALS_FILE, creds_data)
          /\ pc' = "secret_chmod"
          /\ out' = out
       \/ /\ SecretIOError
          /\ fs' = fs
    /\ UNCHANGED <<prog, checks, fs1, env, dirs, umask, reads, loaded, existsChecked, creds_data, creds_path, env0, fs0>>
    /\ UNCHANGED <<runVars, cfgVars>>

\* line 66
SecretChmod ==
    /\ pc = "secret_chmod"
    /\ \/ /\ fs' = Chmod(fs, CREDENTIALS_FILE, OwnerRW)
          /\ pc' = "secret_env"
          /\ out' = out
       \/ /\ SecretIOError
          /\ fs' = fs
    /\ UNCHANGED <<prog, checks, fs1, env, dirs, umask, reads, loaded, existsChecked, creds_data, creds_path, env0, fs0>>
    /\ UNCHANGED <<runVars, cfgVars>>

\* Mutant of SecretReturn: check_credentials does not return the secret's path
\* and goes on to the fall back.
SecretReturn_FallsThrough ==
    /\ pc = "secret_env"
    /\ out' = out \o CreatedMessages(creds_data)
    /\ env' = SetEnv(env, GAC, CREDENTIALS_FILE)
    /\ creds_path' = CREDENTIALS_FILE
    /\ pc' = "fallback"
    /\ UNCHANGED <<prog, checks, fs1, fs, dirs, umask, reads, loaded, existsChecked, creds_data, env0, fs0>>
    /\ UNCHANGED <<runVars, cfgVars>>

\* lines 68-75, and check_credentials lines 94-95: the path is returned.
SecretReturn ==
    /\ pc = "secret_env"
    /\ out' = out \o CreatedMessages(creds_data)
    /\ env' = SetEnv(env, GAC, CREDENTIALS_FILE)
    /\ creds_path' = CREDENTIALS_FILE
    /\ pc' = "returned"
    /\ UNCHANGED <<prog, checks, fs1, fs, dirs, umask, reads, loaded, existsChecked, creds_data, env0, fs0>>
    /\ UNCHANGED <<runVars, cfgVars>>

\* check_credentials, lines 98-125 and 154-159: the fall back to
\* GOOGLE_APPLICATION_CREDENTIALS, as pasted JSON or as a file path.
Fallback ==
    /\ pc = "fallback"
    /\ reads' = reads \cup {GAC}
    /\ LET creds_value == EnvGet(env, GAC)
           creds_value_stripped == Strip(creds_value.val)
       IN  IF Falsy(creds_value)
           THEN /\ out' = Say(out, <<"ERROR: No credentials found">>)
                /\ creds_path' = <<>>
                /\ pc' = "returned"
                /\ UNCHANGED <<loaded, existsChecked, creds_data>>
           ELSE IF StartsWithBrace(creds_value_stripped)
           THEN LET j == json_loads(creds_value_stripped)
                    v == ValidateKey(j)
                    found == Say(out, <<"Found JSON content in GOOGLE_APPLICATION_CREDENTIALS">>)
                IN  /\ loaded' = loaded \cup {[src |-> GAC, text |-> creds_value_stripped]}
                    /\ existsChecked' = existsChecked
                    /\ IF v.res = "ok"
                       THEN /\ out' = found
                            /\ creds_data' = j.items
                            /\ creds_path' = creds_path
                            /\ pc' = "inline_mkdir"
                       ELSE /\ out' = Say(found, ValidationMessage(v, GAC))
                            /\ creds_data' = creds_data
                            /\ creds_path' = <<>>
                            /\ pc' = "returned"
           ELSE /\ existsChecked' = existsChecked \cup {creds_value.val}
                /\ UNCHANGED <<loaded, creds_data>>
                /\ pc' = "returned"
                /\ IF PathExists(fs, creds_value.val)
                   THEN /\ out' = Say(out, <<"Credentials file found:">> \o creds_value.val)
                        /\ creds_path' = creds_value.val
                   ELSE /\ out' = Say(out, <<"ERROR: Credentials file not found:">> \o creds_value.val)
                        /\ creds_path' = <<>>
    /\ UNCHANGED <<prog, checks, fs1, env, fs, dirs, umask, env0, fs0>>
    /\ UNCHANGED <<runVars, cfgVars>>

\* An I/O error in the pasted-JSON branch (lines 149-151): None is returned.
InlineIOError ==
    /\ out' = Say(out, <<"ERROR: Could not create credentials file">>)
    /\ creds_path' = <<>>
    /\ pc' = "returned"

\* line 128
InlineMakedirs ==
    /\ pc = "inline_mkdir"
    /\ \/ /\ dirs' = Makedirs(dirs, CREDENTIALS_DIR)
          /\ pc' = "inline_open"
          /\ UNCHANGED <<out, creds_path>>
       \/ /\ InlineIOError
          /\ dirs' = dirs
    /\ UNCHANGED <<prog, checks, fs1, env, fs, umask, reads, loaded, existsChecked, creds_data, env0, fs0>>
    /\ UNCHANGED <<runVars, cfgVars>>

\* line 131
InlineOpen ==
    /\ pc = "inline_open"
    /\ \/ /\ fs' = OpenForWrite(fs, CREDENTIALS_FILE, umask)
          /\ pc' = "inline_dump"
          /\ UNCHANGED <<out, creds_path>>
       \/ /\ InlineIOError
          /\ fs' = fs
    /\ UNCHANGED <<prog, checks, fs1, env, dirs, umask, reads, loaded, existsChecked, creds_data, env0, fs0>>
    /\ UNCHANGED <<runVars, cfgVars>>

\* line 132
InlineDump ==
    /\ pc = "inline_dump"
    /\ \/ /\ fs' = WriteJson(fs, CREDENTIALS_FILE, creds_data)
          /\ pc' = "inline_chmod"
          /\ UNCHANGED <<out, creds_path>>
       \/ /\ InlineIOError
          /\ fs' = fs
    /\ UNCHANGED <<prog, checks, fs1, env, dirs, umask, reads, loaded, existsChecked, creds_data, env0, fs0>>
    /\ UNCHANGED <<runVars, cfgVars>>

\* line 135
InlineChmod ==
    /\ pc = "inline_chmod"
    /\ \/ /\ fs' = Chmod(fs, CREDENTIALS_FILE, OwnerRW)
          /\ pc' = "inline_env"
          /\ UNCHANGED <<out, creds_path>>
       \/ /\ InlineIOError
          /\ fs' = fs
    /\ UNCHANGED <<prog, checks, fs1, env, dirs, umask, reads, loaded, existsChecked, creds_data, env0, fs0>>
    /\ UNCHANGED <<runVars, cfgVars>>

\* lines 137-144
InlineReturn ==
    /\ pc = "inline_env"
    /\ out' = out \o CreatedMessages(creds_data)
    /\ env' = SetEnv(env, GAC, CREDENTIALS_FILE)
    /\ creds_path' = CREDENTIALS_FILE
    /\ pc' = "returned"
    /\ UNCHANGED <<prog, checks, fs1, fs, dirs, umask, reads, loaded, existsChecked, creds_data, env0, fs0>>
    /\ UNCHANGED <<runVars, cfgVars>>

\* The state a script starts in: its environment and the files.
DefaultEnv == [n \in {SAJ, GAC, OAUTH_ID, OAUTH_SECRET} |-> Unset]

InitFiles(canonical) ==
    [p \in Paths |-> IF p = CREDENTIALS_FILE THEN canonical ELSE OtherFiles(p)]

\* The remote provider configuration: absent, or present with an enabled field
\* ("true", "false", or "missing") and the OAuth client (texts, <<>> if empty).
NoProvider == [exists |-> FALSE, enabled |-> "missing", clientId |-> <<>>, clientSecret |-> <<>>]

Provider(enabled, id, secret) ==
    [exists |-> TRUE, enabled |-> enabled, clientId |-> id, clientSecret |-> secret]

NoStatus == [exists |-> FALSE, enabled |-> FALSE, client_id |-> <<>>, has_config |-> FALSE,
             has_error |-> FALSE, error |-> ""]

\* The variables a script does not use keep these values.
RunIdle ==
    /\ net = <<>>
    /\ idp = NoProvider
    /\ idp0 = idp
    /\ modules = {}
    /\ procs = <<>>
    /\ installs = 0
    /\ credentials = <<>>
    /\ exitCode = -1

CfgIdle ==
    /\ args = [verify |-> FALSE, client_id |-> Unset, client_secret |-> Unset]
    /\ token = <<>>
    /\ status = NoStatus
    /\ success = FALSE

NoChecks == [google_ok |-> FALSE, firebase_ok |-> FALSE, google_provider_ok |-> FALSE]

VfyIdle ==
    /\ checks = NoChecks
    /\ fs1 = fs

CredsIdle ==
    /\ dirs = {}
    /\ umask = {"gw", "ow"}
    /\ reads = {}
    /\ loaded = {}
    /\ existsChecked = {}
    /\ creds_data = <<>>
    /\ creds_path = <<>>

\* check_credentials called on every pair of inputs, lines 87-92.
InitCreds ==
    /\ prog = "setup"
    /\ pc = "secret"
    /\ \E s \in SecretInputs, g \in AppCredInputs :
           env = [DefaultEnv EXCEPT ![SAJ] = s, ![GAC] = g]
    /\ \E c \in CanonicalBefore : fs = InitFiles(c)
    /\ dirs = IF fs[CREDENTIALS_FILE].exists THEN {CREDENTIALS_DIR} ELSE {}
    /\ umask \in Umasks
    /\ out = << <<"Step 1: Checking Google Credentials">> >>
    /\ reads = {}
    /\ loaded = {}
    /\ existsChecked = {}
    /\ creds_data = <<>>
    /\ creds_path = <<>>
    /\ env0 = env
    /\ fs0 = fs
    /\ RunIdle
    /\ CfgIdle
    /\ VfyIdle

NextCreds ==
    \/ SecretValidate
    \/ SecretMakedirs
    \/ SecretOpen
    \/ SecretDump
    \/ SecretChmod
    \/ SecretReturn
    \/ Fallback
    \/ InlineMakedirs
    \/ InlineOpen
    \/ InlineDump
    \/ InlineChmod
    \/ InlineReturn

SpecCreds == InitCreds /\ [][NextCreds]_vars

(***************************************************************************)
(* The provider configurator: google_auth_setup.py                         *)
(***************************************************************************)

TOKEN_URL == "oauth2.googleapis.com/token"

CONFIG_URL == "identitytoolkit.googleapis.com/v2/projects/digital-workshop-hub/config"

PROVIDER_URL == "identitytoolkit.googleapis.com/admin/v2/projects/digital-workshop-hub/defaultSupportedIdpConfigs/google.com"

CREATE_URL == "identitytoolkit.googleapis.com/admin/v2/projects/digital-workshop-hub/defaultSupportedIdpConfigs?idpId=google.com"

\* str() of a status code and of a bool, as the f-strings print them.
StatusText(code) ==
    CASE code = 200 -> "200" [] code = 201 -> "201" [] code = 403 -> "403"
      [] code = 404 -> "404" [] code = 409 -> "409" [] code = 500 -> "500"

BoolText(b) == IF b THEN "True" ELSE "False"

Request(method, url, body, code) == [method |-> method, url |-> url, body |-> body, code |-> code]

\* Status codes with which the service refuses or fails a request.
ErrorCodes == {403, 500}

\* The status recorded for a request that raised (no connection) instead of
\* being answered.
NoResponse == 0

\* An exception nothing catches: the traceback is printed and Python exits 1.
Crash ==
    /\ out' = Say(out, <<"Traceback (most recent call last):">>)
    /\ exitCode' = 1
    /\ pc' = "exit"

\* Response bodies (response.text) of a refused or failed request.
ErrorTexts == {"", "backend error"}

\* What GET .../defaultSupportedIdpConfigs/google.com can answer: the resource
\* (200), NOT_FOUND (404), or an error.
ProviderGetResponses(remote) ==
    {IF remote.exists
     THEN [code |-> 200, enabled |-> remote.enabled, clientId |-> remote.clientId, text |-> "{...}"]
     ELSE [code |-> 404, enabled |-> "missing", clientId |-> <<>>, text |-> "NOT_FOUND"]}
    \cup {[code |-> c, enabled |-> "missing", clientId |-> <<>>, text |-> t] : c \in ErrorCodes, t \in ErrorTexts}

\* Mutant of check_google_provider_status: a missing "enabled" counts as enabled.
check_google_provider_status_DefaultsEnabled(response) ==
    IF response.code = 200
    THEN [exists |-> TRUE, enabled |-> response.enabled # "false",
          client_id |-> response.clientId, has_config |-> TRUE, has_error |-> FALSE, error |-> ""]
    ELSE IF response.code = 404
    THEN [exists |-> FALSE, enabled |-> FALSE, client_id |-> <<>>, has_config |-> TRUE,
          has_error |-> FALSE, error |-> ""]
    ELSE [exists |-> FALSE, enabled |-> FALSE, client_id |-> <<>>, has_config |-> FALSE,
          has_error |-> TRUE, error |-> response.text]

\* Mutant of check_google_provider_status: an error with an empty body gives
\* the record of a 404.
check_google_provider_status_DropsEmptyError(response) ==
    IF response.code = 200
    THEN [exists |-> TRUE, enabled |-> response.enabled = "true",
          client_id |-> response.clientId, has_config |-> TRUE, has_error |-> FALSE, error |-> ""]
    ELSE IF response.code = 404 \/ response.text = ""
    THEN [exists |-> FALSE, enabled |-> FALSE, client_id |-> <<>>, has_config |-> TRUE,
          has_error |-> FALSE, error |-> ""]
    ELSE [exists |-> FALSE, enabled |-> FALSE, client_id |-> <<>>, has_config |-> FALSE,
          has_error |-> TRUE, error |-> response.text]

\* check_google_provider_status, lines 118-140: the record built from the
\* response (config.get('enabled', False), config.get('clientId', '')).
check_google_provider_status(response) ==
    IF response.code = 200
    THEN [exists |-> TRUE, enabled |-> response.enabled = "true",
          client_id |-> response.clientId, has_config |-> TRUE, has_error |-> FALSE, error |-> ""]
    ELSE IF response.code = 404
    THEN [exists |-> FALSE, enabled |-> FALSE, client_id |-> <<>>, has_config |-> TRUE,
          has_error |-> FALSE, error |-> ""]
    ELSE [exists |-> FALSE, enabled |-> FALSE, client_id |-> <<>>, has_config |-> FALSE,
          has_error |-> TRUE, error |-> response.text]

\* Mutant of EnableDecision: without OAuth credentials the result is failure
\* even when the provider exists.
EnableDecision_GuidanceAlwaysFails(st, client_id, client_secret, e) ==
    IF st.enabled /\ Falsy(client_id) THEN [kind |-> "already", id |-> <<>>, secret |-> <<>>]
    ELSE LET id == IF Falsy(client_id) THEN EnvGet(e, OAUTH_ID) ELSE client_id
             sec == IF Falsy(client_secret) THEN EnvGet(e, OAUTH_SECRET) ELSE client_secret
         IN  IF Falsy(id) \/ Falsy(sec)
             THEN [kind |-> "guidance_absent", id |-> <<>>, secret |-> <<>>]
             ELSE [kind |-> IF st.exists THEN "PATCH" ELSE "POST", id |-> id.val, secret |-> sec.val]

\* enable_google_provider, lines 150-196: what the function does with the
\* status, its arguments and the environment.  kind is "already" (return True
\* at line 154), "guidance_exists" (True, line 174), "guidance_absent" (False,
\* line 175), or the method of the write request.
EnableDecision(st, client_id, client_secret, e) ==
    IF st.enabled /\ Falsy(client_id) THEN [kind |-> "already", id |-> <<>>, secret |-> <<>>]
    ELSE LET id == IF Falsy(client_id) THEN EnvGet(e, OAUTH_ID) ELSE client_id
             sec == IF Falsy(client_secret) THEN EnvGet(e, OAUTH_SECRET) ELSE client_secret
         IN  IF Falsy(id) \/ Falsy(sec)
             THEN [kind |-> IF st.exists THEN "guidance_exists" ELSE "guidance_absent",
                   id |-> <<>>, secret |-> <<>>]
             ELSE [kind |-> IF st.exists THEN "PATCH" ELSE "POST", id |-> id.val, secret |-> sec.val]

\* The status codes the service can answer a write with: PATCH updates an
\* existing provider, POST creates a missing one (200 or 201), anything else is
\* refused.
WriteResponses(method, remote) ==
    ErrorCodes
    \cup (IF method = "PATCH" THEN (IF remote.exists THEN {200} ELSE {404})
          ELSE (IF remote.exists THEN {409} ELSE {200, 201}))

\* The remote configuration after a write that the service accepted.
Written(remote, code, config) ==
    IF code \in {200, 201}
    THEN Provider(IF config.enabled THEN "true" ELSE "false", config.clientId, config.clientSecret)
    ELSE remote

\* What get_access_token (lines 32-67) can do: dec is "import_error",
\* "not_set", "not_found", or "refresh" (the key file is loaded and the token
\* requested).
TokenDecision(e, f, mods) ==
    IF "google-auth" \notin mods THEN "import_error"
    ELSE IF Falsy(EnvGet(e, GAC)) THEN "not_set"
    ELSE IF ~PathExists(f, EnvGet(e, GAC).val) THEN "not_found"
    ELSE "refresh"

\* What get_access_token prints when it returns None before any request.
TokenError(dec, path) ==
    CASE dec = "import_error" -> <<"ERROR: google-auth package not installed">>
      [] dec = "not_set" -> <<"ERROR: GOOGLE_APPLICATION_CREDENTIALS not set">>
      [] dec = "not_found" -> <<"ERROR: Credentials file not found:">> \o path

\* from_service_account_file can succeed only on a file that holds a JSON
\* object with a signing key and the account's e-mail address.
KeyFileLoadable(f, path) ==
    /\ PathExists(f, path)
    /\ LET j == json_loads(f[path].content)
       IN  /\ j.kind = "dict"
           /\ DictHas(j.items, "private_key")
           /\ DictHas(j.items, "client_email")

ACCESS_TOKEN == <<"ya29.token">>

\* Mutant of CfgMain: the flags are copied into the environment before the
\* mode is looked at.
CfgMain_CopiesFlagsFirst ==
    /\ prog = "config"
    /\ pc = "cfg_main"
    /\ env' = [env EXCEPT ![OAUTH_ID] = IF Falsy(args.client_id) THEN @ ELSE args.client_id,
                          ![OAUTH_SECRET] = IF Falsy(args.client_secret) THEN @ ELSE args.client_secret]
    /\ out' = Say(out, IF args.verify THEN <<"Google Authentication Setup Verification">>
                       ELSE <<"Google Authentication Setup">>)
    /\ pc' = "cfg_token"
    /\ UNCHANGED <<prog, checks, fs1, fs, dirs, umask, reads, loaded, existsChecked, creds_data, creds_path, env0, fs0>>
    /\ UNCHANGED <<runVars, cfgVars>>

\* main, lines 298-309: --verify goes to the read-only check; otherwise the
\* flags given are copied into the environment.
CfgMain ==
    /\ prog = "config"
    /\ pc = "cfg_main"
    /\ IF args.verify
       THEN env' = env
       ELSE env' = [env EXCEPT ![OAUTH_ID] = IF Falsy(args.client_id) THEN @ ELSE args.client_id,
                               ![OAUTH_SECRET] = IF Falsy(args.client_secret) THEN @ ELSE args.client_secret]
    /\ out' = Say(out, IF args.verify THEN <<"Google Authentication Setup Verification">>
                       ELSE <<"Google Authentication Setup">>)
    /\ pc' = "cfg_token"
    /\ UNCHANGED <<prog, checks, fs1, fs, dirs, umask, reads, loaded, existsChecked, creds_data, creds_path, env0, fs0>>
    /\ UNCHANGED <<runVars, cfgVars>>

\* get_access_token as called at lines 216-218 and 261-264.
CfgGetToken ==
    /\ prog = "config"
    /\ pc = "cfg_token"
    /\ reads' = reads \cup (IF "google-auth" \in modules THEN {GAC} ELSE {})
    /\ LET dec == TokenDecision(env, fs, modules)
           failed == IF args.verify THEN <<>> ELSE << <<"[FAILED] Could not get access token">> >>
       IN  \/ /\ dec # "refresh"
              /\ out' = Say(out, TokenError(dec, EnvGet(env, GAC).val)) \o failed
              /\ token' = <<>>
              /\ net' = net
              /\ success' = FALSE
              /\ pc' = "cfg_return"
           \/ /\ dec = "refresh"
              /\ ~KeyFileLoadable(fs, EnvGet(env, GAC).val)
              /\ out' = Say(out, <<"ERROR: Could not get access token">>) \o failed
              /\ token' = <<>>
              /\ net' = net
              /\ success' = FALSE
              /\ pc' = "cfg_return"
           \/ /\ dec = "refresh"
              /\ KeyFileLoadable(fs, EnvGet(env, GAC).val)
              /\ \E code \in {200} \cup ErrorCodes :
                    /\ net' = Append(net, Request("POST", TOKEN_URL, <<>>, code))
                    /\ IF code = 200
                       THEN /\ token' = ACCESS_TOKEN
                            /\ out' = Say(out, <<"Access token: OK">>)
                            /\ success' = success
                            /\ pc' = IF args.verify THEN "verify_config" ELSE "enable_status"
                       ELSE /\ token' = <<>>
                            /\ out' = Say(out, <<"ERROR: Could not get access token">>) \o failed
                            /\ success' = FALSE
                            /\ pc' = "cfg_return"
    /\ UNCHANGED <<prog, checks, fs1, env, fs, dirs, umask, loaded, existsChecked, creds_data, creds_path, env0, fs0>>
    /\ UNCHANGED <<idp, idp0, modules, procs, installs, credentials, exitCode, args, status>>

\* enable_google_provider, line 148: the GET of check_google_provider_status.
EnableStatus ==
    /\ prog = "config"
    /\ pc = "enable_status"
    /\ \E response \in ProviderGetResponses(idp) :
          /\ net' = Append(net, Request("GET", PROVIDER_URL, <<>>, response.code))
          /\ status' = check_google_provider_status(response)
          /\ out' = IF response.code \in {200, 404} THEN out
                    ELSE Say(out, <<"Warning: Could not check Google provider:", StatusText(response.code)>>)
    /\ pc' = "enable_decide"
    /\ UNCHANGED <<prog, checks, fs1, env, fs, dirs, umask, reads, loaded, existsChecked, creds_data, creds_path, env0, fs0>>
    /\ UNCHANGED <<idp, idp0, modules, procs, installs, credentials, exitCode, args, token, success>>

\* enable_google_provider, lines 150-204, called with the token only (line 269).
EnableGoogleProvider ==
    /\ prog = "config"
    /\ pc = "enable_decide"
    /\ reads' = reads \cup (IF status.enabled THEN {} ELSE {OAUTH_ID, OAUTH_SECRET})
    /\ LET d == EnableDecision(status, Unset, Unset, env)
           config == [enabled |-> TRUE, clientId |-> d.id, clientSecret |-> d.secret]
       IN  IF d.kind = "already"
           THEN /\ out' = Say(out, <<"Google Sign-In provider is already enabled">>)
                           \o (IF status.client_id # <<>> THEN << <<"  Client ID:">> \o status.client_id >> ELSE <<>>)
                /\ success' = TRUE
                /\ UNCHANGED <<net, idp>>
           ELSE IF d.kind \in {"guidance_exists", "guidance_absent"}
           THEN /\ out' = Say(out, <<"To enable Google Sign-In with custom OAuth credentials:">>)
                           \o (IF d.kind = "guidance_exists"
                               THEN << <<"Note: Google provider exists but may need OAuth configuration">> >>
                               ELSE <<>>)
                /\ success' = (d.kind = "guidance_exists")
                /\ UNCHANGED <<net, idp>>
           ELSE \E code \in WriteResponses(d.kind, idp) :
                    /\ net' = Append(net, Request(d.kind, IF d.kind = "PATCH" THEN PROVIDER_URL ELSE CREATE_URL,
                                                  <<config>>, code))
                    /\ idp' = Written(idp, code, config)
                    /\ success' = (code \in {200, 201})
                    /\ out' = Say(out, IF code \in {200, 201}
                                       THEN <<"Google Sign-In provider enabled successfully!">>
                                       ELSE <<"ERROR: Could not enable Google provider:", StatusText(code)>>)
    /\ pc' = "setup_report"
    /\ UNCHANGED <<prog, checks, fs1, env, fs, dirs, umask, loaded, existsChecked, creds_data, creds_path, env0, fs0>>
    /\ UNCHANGED <<idp0, modules, procs, installs, credentials, exitCode, args, token, status>>

\* setup_google_auth, lines 271-283.
SetupReport ==
    /\ prog = "config"
    /\ pc = "setup_report"
    /\ out' = IF success THEN Say(out, <<"Google Authentication Setup Complete!">>) ELSE out
    /\ pc' = "cfg_return"
    /\ UNCHANGED <<prog, checks, fs1, env, fs, dirs, umask, reads, loaded, existsChecked, creds_data, creds_path, env0, fs0>>
    /\ UNCHANGED <<runVars, cfgVars>>

\* verify_google_auth_setup, lines 223-232, with get_identity_config (70-88).
VerifyConfig ==
    /\ prog = "config"
    /\ pc = "verify_config"
    /\ \E code \in {200, 404} \cup ErrorCodes :
          /\ net' = Append(net, Request("GET", CONFIG_URL, <<>>, code))
          /\ IF code = 200
             THEN /\ out' = Say(out, <<"  Project:", PROJECT_ID>>)
                  /\ pc' = "verify_status"
                  /\ success' = success
             ELSE IF code = 404
             THEN /\ out' = Say(out, <<"Identity Platform not yet configured for this project">>)
                  /\ pc' = "verify_status"
                  /\ success' = success
             ELSE /\ out' = Say(out, <<"ERROR: Could not get Identity config:", StatusText(code)>>)
                  /\ pc' = "cfg_return"
                  /\ success' = FALSE
    /\ UNCHANGED <<prog, checks, fs1, env, fs, dirs, umask, reads, loaded, existsChecked, creds_data, creds_path, env0, fs0>>
    /\ UNCHANGED <<idp, idp0, modules, procs, installs, credentials, exitCode, args, token, status>>

\* verify_google_auth_setup, lines 236-248.
VerifyStatus ==
    /\ prog = "config"
    /\ pc = "verify_status"
    /\ \E response \in ProviderGetResponses(idp) :
          LET st == check_google_provider_status(response)
              warned == IF response.code \in {200, 404} THEN out
                        ELSE Say(out, <<"Warning: Could not check Google provider:", StatusText(response.code)>>)
          IN  /\ net' = Append(net, Request("GET", PROVIDER_URL, <<>>, response.code))
              /\ status' = st
              /\ out' = (IF st.has_error /\ st.error # "" THEN Say(warned, <<"  Warning:", st.error>>) ELSE warned)
                        \o << <<"  Provider exists:", BoolText(st.exists)>>, <<"  Provider enabled:", BoolText(st.enabled)>> >>
                        \o (IF st.client_id # <<>> THEN << <<"  OAuth Client ID:">> \o st.client_id >> ELSE <<>>)
              /\ success' = (st.enabled \/ st.exists)
    /\ pc' = "cfg_return"
    /\ UNCHANGED <<prog, checks, fs1, env, fs, dirs, umask, reads, loaded, existsChecked, creds_data, creds_path, env0, fs0>>
    /\ UNCHANGED <<idp, idp0, modules, procs, installs, credentials, exitCode, args, token>>

\* requests.get / patch / post raising (connection error) in
\* get_identity_config (line 78), check_google_provider_status (line 116) or
\* enable_google_provider (lines 191, 196): no handler, the process dies.
CfgRequestRaises ==
    /\ prog = "config"
    /\ \/ /\ pc = "verify_config"
          /\ net' = Append(net, Request("GET", CONFIG_URL, <<>>, NoResponse))
          /\ reads' = reads
       \/ /\ pc \in {"enable_status", "verify_status"}
          /\ net' = Append(net, Request("GET", PROVIDER_URL, <<>>, NoResponse))
          /\ reads' = reads
       \/ /\ pc = "enable_decide"
          /\ reads' = reads \cup {OAUTH_ID, OAUTH_SECRET}
          /\ LET d == EnableDecision(status, Unset, Unset, env)
             IN  /\ d.kind \in {"PATCH", "POST"}
                 /\ net' = Append(net, Request(d.kind, IF d.kind = "PATCH" THEN PROVIDER_URL ELSE CREATE_URL,
                                               <<[enabled |-> TRUE, clientId |-> d.id, clientSecret |-> d.secret]>>,
                                               NoResponse))
    /\ Crash
    /\ UNCHANGED <<prog, checks, fs1, env, fs, dirs, umask, loaded, existsChecked, creds_data, creds_path, env0, fs0>>
    /\ UNCHANGED <<idp, idp0, modules, procs, installs, credentials, args, token, status, success>>

\* Mutant of CfgExit: the result is not turned into the exit code.
CfgExit_AlwaysZero ==
    /\ prog = "config"
    /\ pc = "cfg_return"
    /\ exitCode' = 0
    /\ pc' = "exit"
    /\ UNCHANGED <<prog, checks, fs1, credVars, net, idp, idp0, modules, procs, installs, credentials, cfgVars>>

\* main, line 311.
CfgExit ==
    /\ prog = "config"
    /\ pc = "cfg_return"
    /\ exitCode' = IF success THEN 0 ELSE 1
    /\ pc' = "exit"
    /\ UNCHANGED <<prog, checks, fs1, credVars, net, idp, idp0, modules, procs, installs, credentials, cfgVars>>

\* Values of --client-id / --client-secret and of the GOOGLE_OAUTH_* variables.
OptionalTexts(text) == {Unset, Value(<<>>), Value(text)}

\* Remote provider configurations a run can meet.
ProvidersBefore ==
    {NoProvider, Provider("false", <<"old-id">>, <<"old-secret">>),
     Provider("true", <<"old-id">>, <<"old-secret">>),
     Provider("missing", <<>>, <<>>), Provider("true", <<>>, <<>>)}

InitConfig ==
    /\ prog = "config"
    /\ pc = "cfg_main"
    /\ \E g \in {Unset, Value(KeyPath), Value(MissingPath)},
          i \in {Unset, Value(<<"env-id">>)},
          k \in {Unset, Value(<<"env-secret">>)} :
           env = [DefaultEnv EXCEPT ![GAC] = g, ![OAUTH_ID] = i, ![OAUTH_SECRET] = k]
    /\ fs = InitFiles(NoFile)
    /\ out = <<>>
    /\ env0 = env
    /\ fs0 = fs
    /\ CredsIdle
    /\ net = <<>>
    /\ idp \in ProvidersBefore
    /\ idp0 = idp
    /\ modules \in {{"google-auth"}, {}}
    /\ procs = <<>>
    /\ installs = 0
    /\ credentials = <<>>
    /\ exitCode = -1
    /\ \E v \in BOOLEAN, i \in OptionalTexts(<<"flag-id">>), k \in {Unset, Value(<<"flag-secret">>)} :
           args = [verify |-> v, client_id |-> i, client_secret |-> k]
    /\ token = <<>>
    /\ status = NoStatus
    /\ success = FALSE
    /\ VfyIdle

NextConfig ==
    \/ CfgMain
    \/ CfgGetToken
    \/ EnableStatus
    \/ EnableGoogleProvider
    \/ SetupReport
    \/ VerifyConfig
    \/ VerifyStatus
    \/ CfgRequestRaises
    \/ CfgExit

SpecConfig == InitConfig /\ [][NextConfig]_vars

(***************************************************************************)
(* The setup orchestrator: first_run_setup.py, main                        *)
(***************************************************************************)

RELEASES_URL == "firebaserules.googleapis.com/v1/projects/digital-workshop-hub/releases"

RULESET_URL == "firebaserules.googleapis.com/v1/<rulesetName>"

USERS_URL == "identitytoolkit.googleapis.com/v1/projects/digital-workshop-hub/accounts:batchGet"

\* The recursion of the install-and-retry handlers is followed this deep.
MaxInstalls == 2

\* Mutant of MainCredentials: the run goes on without credentials.
MainCredentials_NoAbort ==
    /\ prog = "setup"
    /\ pc = "returned"
    /\ out' = IF creds_path = <<>> THEN Say(out, <<"[FAILED] Setup cannot continue without credentials">>) ELSE out
    /\ pc' = "auth"
    /\ UNCHANGED <<prog, checks, fs1, env, fs, dirs, umask, reads, loaded, existsChecked, creds_data, creds_path, env0, fs0>>
    /\ UNCHANGED <<runVars, cfgVars>>

\* main, lines 722-725.
MainCredentials ==
    /\ prog = "setup"
    /\ pc = "returned"
    /\ IF creds_path = <<>>
       THEN /\ out' = Say(out, <<"[FAILED] Setup cannot continue without credentials">>)
            /\ exitCode' = 1
            /\ pc' = "exit"
       ELSE /\ pc' = "auth"
            /\ UNCHANGED <<out, exitCode>>
    /\ UNCHANGED <<prog, checks, fs1, env, fs, dirs, umask, reads, loaded, existsChecked, creds_data, creds_path, env0, fs0>>
    /\ UNCHANGED <<net, idp, idp0, modules, procs, installs, credentials, cfgVars>>

\* verify_google_auth, lines 162-197.  Without the package the handler runs
\* pip and calls the function again; otherwise the key file is loaded and a
\* token requested, and any exception makes the result None.
VerifyGoogleAuth ==
    /\ prog = "setup"
    /\ pc = "auth"
    /\ \/ /\ "google-auth" \notin modules
          /\ installs < MaxInstalls
          /\ out' = out \o << <<"Step 2: Verifying Google Auth">>,
                              <<"ERROR: google-auth package not installed">>,
                              <<"Installing required packages...">> >>
          /\ procs' = Append(procs, "pip install google-auth google-auth-oauthlib requests -q")
          /\ installs' = installs + 1
          /\ modules' \in {modules, modules \cup {"google-auth"}}
          /\ pc' = "auth"
          /\ UNCHANGED <<net, credentials>>
       \/ /\ "google-auth" \in modules
          /\ out' = out \o << <<"Step 2: Verifying Google Auth">>, <<"ERROR: could not load the key file">> >>
          /\ credentials' = <<>>
          /\ pc' = "auth_done"
          /\ UNCHANGED <<net, procs, installs, modules>>
       \/ /\ "google-auth" \in modules
          /\ KeyFileLoadable(fs, creds_path)
          /\ \E code \in {200} \cup ErrorCodes :
                /\ net' = Append(net, Request("POST", TOKEN_URL, <<>>, code))
                /\ IF code = 200
                   THEN /\ credentials' = ACCESS_TOKEN
                        /\ out' = out \o << <<"Step 2: Verifying Google Auth">>, <<"Google Auth: OK">> >>
                   ELSE /\ credentials' = <<>>
                        /\ out' = out \o << <<"Step 2: Verifying Google Auth">>, <<"ERROR: token refresh failed">> >>
          /\ pc' = "auth_done"
          /\ UNCHANGED <<procs, installs, modules>>
    /\ UNCHANGED <<prog, checks, fs1, env, fs, dirs, umask, reads, loaded, existsChecked, creds_data, creds_path, env0, fs0>>
    /\ UNCHANGED <<idp, idp0, exitCode, cfgVars>>

\* Mutant of MainAuth: the run goes on without a token.
MainAuth_NoAbort ==
    /\ prog = "setup"
    /\ pc = "auth_done"
    /\ out' = IF credentials = <<>> THEN Say(out, <<"[FAILED] Google Auth verification failed">>) ELSE out
    /\ pc' = "admin"
    /\ UNCHANGED <<prog, checks, fs1, env, fs, dirs, umask, reads, loaded, existsChecked, creds_data, creds_path, env0, fs0>>
    /\ UNCHANGED <<runVars, cfgVars>>

\* main, lines 728-731.
MainAuth ==
    /\ prog = "setup"
    /\ pc = "auth_done"
    /\ IF credentials = <<>>
       THEN /\ out' = Say(out, <<"[FAILED] Google Auth verification failed">>)
            /\ exitCode' = 1
            /\ pc' = "exit"
       ELSE /\ pc' = "admin"
            /\ UNCHANGED <<out, exitCode>>
    /\ UNCHANGED <<prog, checks, fs1, env, fs, dirs, umask, reads, loaded, existsChecked, creds_data, creds_path, env0, fs0>>
    /\ UNCHANGED <<net, idp, idp0, modules, procs, installs, credentials, cfgVars>>

\* verify_firebase_admin, lines 200-237, and main's warning, lines 734-737.
VerifyFirebaseAdmin ==
    /\ prog = "setup"
    /\ pc = "admin"
    /\ \/ /\ "firebase-admin" \notin modules
          /\ installs < MaxInstalls
          /\ out' = out \o << <<"Step 3: Verifying Firebase Admin SDK">>,
                              <<"ERROR: firebase-admin package not installed">>,
                              <<"Installing required packages...">> >>
          /\ procs' = Append(procs, "pip install firebase-admin -q")
          /\ installs' = installs + 1
          /\ modules' \in {modules, modules \cup {"firebase-admin"}}
          /\ pc' = "admin"
          /\ net' = net
       \/ /\ "firebase-admin" \in modules
          /\ \E code \in {200} \cup ErrorCodes :
                /\ net' = Append(net, Request("GET", USERS_URL, <<>>, code))
                /\ out' = out \o << <<"Step 3: Verifying Firebase Admin SDK">> >>
                              \o (IF code = 200 THEN << <<"Firebase Admin SDK: OK">> >>
                                  ELSE << <<"Firebase Admin SDK may need additional IAM permissions">>,
                                          <<"[WARNING] Firebase Admin SDK verification failed">> >>)
          /\ pc' = "scaffold"
          /\ UNCHANGED <<procs, installs, modules>>
    /\ UNCHANGED <<prog, checks, fs1, env, fs, dirs, umask, reads, loaded, existsChecked, creds_data, creds_path, env0, fs0>>
    /\ UNCHANGED <<idp, idp0, credentials, exitCode, cfgVars>>

\* Mutant of WriteFile: the file is opened for appending.
WriteFile_Appends(f, path, mask, content) ==
    [f EXCEPT ![path] = File(IF f[path].exists THEN f[path].mode ELSE AllBits \ mask,
                             (IF f[path].exists THEN f[path].content ELSE <<>>) \o content)]

\* open(path, 'w'), write, close.
WriteFile(f, path, mask, content) ==
    [f EXCEPT ![path] = File(IF f[path].exists THEN f[path].mode ELSE AllBits \ mask, content)]

\* The files setup_firebase_project writes, in order, with their fixed content
\* (lines 311-348 and create_google_login_page, lines 360-605).
ScaffoldFiles ==
    << [path |-> FIREBASE_JSON,
        content |-> <<"{", "firestore", ":", "{", "rules", ":", "firestore.rules", ",", "indexes", ":",
                      "firestore.indexes.json", "}", ",", "hosting", ":", "{", "public", ":", "public", ",",
                      "ignore", ":", "[", "firebase.json", ",", "**/.*", ",", "**/node_modules/**", "]", "}",
                      ",", "storage", ":", "{", "rules", ":", "storage.rules", "}", "}">>],
       [path |-> FIREBASERC,
        content |-> <<"{", "projects", ":", "{", "default", ":", PROJECT_ID, "}", "}">>],
       [path |-> INDEXES_JSON,
        content |-> <<"{", "indexes", ":", "[", "]", ",", "fieldOverrides", ":", "[", "]", "}">>],
       [path |-> INDEX_HTML,
        content |-> <<"<!DOCTYPE html>", "Digital Workshop Hub - Login", "</html>">>] >>

\* The files after the first n of them were written.
RECURSIVE WriteScaffold(_, _, _)
WriteScaffold(f, mask, n) ==
    IF n = 0 THEN f
    ELSE WriteFile(WriteScaffold(f, mask, n - 1), ScaffoldFiles[n].path, mask, ScaffoldFiles[n].content)

\* setup_firebase_project, lines 300-357, called at line 740.  The function
\* returns True or raises: an OSError from makedirs or open is caught nowhere.
SetupFirebaseProject ==
    /\ prog = "setup"
    /\ pc = "scaffold"
    /\ \E n \in 0..Len(ScaffoldFiles) :
          /\ fs' = WriteScaffold(fs, umask, n)
          /\ dirs' = dirs \cup (IF n >= 1 THEN {FIREBASE_PROJECT_DIR} ELSE {})
                          \cup (IF n >= 4 THEN {"~/repos/digital-workshop-hub/public"} ELSE {})
          /\ IF n = Len(ScaffoldFiles)
             THEN /\ out' = out \o << <<"Step 5: Setting Up Firebase Project Directory">>,
                                      <<"Created: firebase.json">>, <<"Created: .firebaserc">>,
                                      <<"Created: firestore.indexes.json">>, <<"Created: public/">>,
                                      <<"Created: public/index.html (Google OAuth login page)">> >>
                  /\ pc' = "rules"
                  /\ exitCode' = exitCode
             ELSE Crash
    /\ UNCHANGED <<prog, checks, fs1, env, umask, reads, loaded, existsChecked, creds_data, creds_path, env0, fs0>>
    /\ UNCHANGED <<net, idp, idp0, modules, procs, installs, credentials, cfgVars>>

\* `word in text.lower()` on the names of the model.
Mentions ==
    {<<"firestore", "cloud.firestore">>, <<"firestore", "firestore.rules">>,
     <<"storage", "firebase.storage/bucket">>, <<"storage", "storage.rules">>}

\* The file a ruleset file is saved as (lines 285-295): <<>> if none.
RulesTarget(release_name, filename) ==
    IF <<"firestore", release_name>> \in Mentions \/ <<"firestore", filename>> \in Mentions
    THEN FIRESTORE_RULES
    ELSE IF <<"storage", release_name>> \in Mentions \/ <<"storage", filename>> \in Mentions
    THEN STORAGE_RULES
    ELSE <<>>

\* Release lists the Rules API can answer with: name, rulesetName ("" if none),
\* the status of the ruleset GET, and the name of the ruleset's one file.
Release(name, ruleset, code, filename) ==
    [name |-> name, rulesetName |-> ruleset, code |-> code, filename |-> filename]

ReleaseLists ==
    {<<>>,
     <<Release("cloud.firestore", "rulesets/a", 200, "firestore.rules")>>,
     <<Release("cloud.firestore", "rulesets/a", 200, "firestore.rules"),
       Release("firebase.storage/bucket", "rulesets/b", 200, "storage.rules")>>,
     <<Release("cloud.firestore", "", 200, ""),
       Release("firebase.storage/bucket", "rulesets/b", 404, "storage.rules")>>,
     <<Release("other", "rulesets/c", 200, "other.rules")>>}

\* The requests and the files after the releases from i on were handled
\* (lines 264-295).
RECURSIVE FetchRulesets(_, _, _, _)
FetchRulesets(rel, i, f, mask) ==
    IF i > Len(rel) THEN [net |-> <<>>, fs |-> f, out |-> <<>>]
    ELSE IF rel[i].rulesetName = "" THEN FetchRulesets(rel, i + 1, f, mask)
    ELSE LET target == RulesTarget(rel[i].name, rel[i].filename)
             saved == rel[i].code = 200 /\ target # <<>>
             f2 == IF saved THEN WriteFile(f, target, mask, <<"rules of", rel[i].rulesetName>>) ELSE f
             rest == FetchRulesets(rel, i + 1, f2, mask)
         IN  [net |-> <<Request("GET", RULESET_URL, <<>>, rel[i].code)>> \o rest.net,
              fs |-> rest.fs,
              out |-> (IF saved THEN << <<"Downloaded:", IF target = FIRESTORE_RULES THEN "firestore.rules" ELSE "storage.rules">> >>
                       ELSE <<>>) \o rest.out]

\* download_firebase_rules, lines 240-297, and main's warning, lines 745-746.
DownloadFirebaseRules ==
    /\ prog = "setup"
    /\ pc = "rules"
    /\ \/ \E code \in ErrorCodes :
             /\ net' = Append(net, Request("GET", RELEASES_URL, <<>>, code))
             /\ out' = out \o << <<"Step 4: Downloading Firebase Rules">>,
                                 <<"ERROR: Could not fetch releases:", StatusText(code)>>,
                                 <<"[WARNING] Could not download Firebase rules">> >>
             /\ fs' = fs
       \/ \E rel \in ReleaseLists :
             LET r == FetchRulesets(rel, 1, fs, umask)
             IN  /\ net' = Append(net, Request("GET", RELEASES_URL, <<>>, 200)) \o r.net
                 /\ out' = Say(out, <<"Step 4: Downloading Firebase Rules">>) \o r.out
                 /\ fs' = r.fs
    /\ pc' = "provider"
    /\ UNCHANGED <<prog, checks, fs1, env, dirs, umask, reads, loaded, existsChecked, creds_data, creds_path, env0, fs0>>
    /\ UNCHANGED <<idp, idp0, modules, procs, installs, credentials, exitCode, cfgVars>>

\* requests.get raising in download_firebase_rules (line 256) or in
\* verify_google_auth_provider (line 657): no handler, the process dies.
SetupRequestRaises ==
    /\ prog = "setup"
    /\ \/ /\ pc = "rules"
          /\ net' = Append(net, Request("GET", RELEASES_URL, <<>>, NoResponse))
       \/ /\ pc = "provider"
          /\ net' = Append(net, Request("GET", PROVIDER_URL, <<>>, NoResponse))
    /\ Crash
    /\ UNCHANGED <<prog, checks, fs1, env, fs, dirs, umask, reads, loaded, existsChecked, creds_data, creds_path, env0, fs0>>
    /\ UNCHANGED <<idp, idp0, modules, procs, installs, credentials, cfgVars>>

\* verify_google_auth_provider, lines 638-685, and main's note, lines 749-752.
VerifyGoogleAuthProvider ==
    /\ prog = "setup"
    /\ pc = "provider"
    /\ \E response \in ProviderGetResponses(idp) :
          /\ net' = Append(net, Request("GET", PROVIDER_URL, <<>>, response.code))
          /\ out' = Say(out, <<"Step 6: Verifying Google Sign-In Provider">>)
                    \o (IF response.code = 200
                        THEN << <<"Google Sign-In provider:",
                                  IF response.enabled = "true" THEN "Enabled" ELSE "Disabled">> >>
                             \o (IF response.clientId # <<>>
                                 THEN << <<"OAuth Client ID:">> \o response.clientId >> ELSE <<>>)
                             \o (IF response.enabled = "true" THEN << <<"Google Sign-In: OK">> >>
                                 ELSE << <<"Google Sign-In provider exists but is disabled">> >>)
                        ELSE IF response.code = 404
                        THEN << <<"Google Sign-In provider: Not configured">> >>
                        ELSE << <<"Warning: Could not check Google provider status:",
                                  StatusText(response.code)>> >>)
                    \o (IF response.code = 200 /\ response.enabled = "true" THEN <<>>
                        ELSE << <<"[INFO] Google Sign-In provider not configured">> >>)
    /\ pc' = "cli"
    /\ UNCHANGED <<prog, checks, fs1, env, fs, dirs, umask, reads, loaded, existsChecked, creds_data, creds_path, env0, fs0>>
    /\ UNCHANGED <<idp, idp0, modules, procs, installs, credentials, exitCode, cfgVars>>

\* verify_firebase_cli, lines 688-710, called at line 755.  Without the CLI the
\* handler runs npm and calls the function again; without npm that
\* subprocess.run raises FileNotFoundError inside the handler.
VerifyFirebaseCli ==
    /\ prog = "setup"
    /\ pc = "cli"
    /\ \/ /\ "firebase" \in modules
          /\ procs' = Append(procs, "firebase --version")
          /\ \E ok \in BOOLEAN :
                out' = out \o << <<"Step 7: Verifying Firebase CLI">>,
                                 IF ok THEN <<"Firebase CLI version:", "13.0.0">>
                                 ELSE <<"Firebase CLI not working properly">> >>
          /\ pc' = "sentinel"
          /\ UNCHANGED <<installs, modules, exitCode>>
       \/ /\ "firebase" \notin modules
          /\ "npm" \in modules
          /\ installs < MaxInstalls
          /\ out' = out \o << <<"Step 7: Verifying Firebase CLI">>, <<"Firebase CLI not installed">>,
                              <<"Installing Firebase CLI...">> >>
          /\ procs' = Append(procs, "npm install -g firebase-tools")
          /\ installs' = installs + 1
          /\ modules' \in {modules, modules \cup {"firebase"}}
          /\ pc' = "cli"
          /\ exitCode' = exitCode
       \/ /\ "firebase" \notin modules
          /\ "npm" \notin modules
          /\ out' = out \o << <<"Step 7: Verifying Firebase CLI">>, <<"Firebase CLI not installed">>,
                              <<"Installing Firebase CLI...">>, <<"Traceback (most recent call last):">> >>
          /\ exitCode' = 1
          /\ pc' = "exit"
          /\ UNCHANGED <<procs, installs, modules>>
    /\ UNCHANGED <<prog, checks, fs1, env, fs, dirs, umask, reads, loaded, existsChecked, creds_data, creds_path, env0, fs0>>
    /\ UNCHANGED <<net, idp, idp0, credentials, cfgVars>>

\* Output of `date -Iseconds`.
TIMESTAMP == "2025-01-01T00:00:00+00:00"

\* sentinel_data, lines 618-626.
SentinelData(d) ==
    << [k |-> "setup_complete", v |-> Atom("true")],
       [k |-> "project_id", v |-> DictGet(d, "project_id")],
       [k |-> "client_email", v |-> DictGet(d, "client_email")],
       [k |-> "private_key_id", v |-> DictGet(d, "private_key_id")],
       [k |-> "credentials_file", v |-> StrAtom(CREDENTIALS_FILE[1])],
       [k |-> "firebase_project_dir", v |-> StrAtom(FIREBASE_PROJECT_DIR)],
       [k |-> "setup_timestamp", v |-> StrAtom(TIMESTAMP)] >>

\* create_sentinel_file, lines 609-635, and the end of main, lines 758-772.
\* Every exception is caught: the warning is printed and main goes on to exit 0.
CreateSentinelFile ==
    /\ prog = "setup"
    /\ pc = "sentinel"
    /\ LET j == IF PathExists(fs, creds_path) THEN json_loads(fs[creds_path].content) ELSE JsonError
           warning == << <<"Warning: Could not create sentinel file">> >>
           done == << <<"Setup Complete!">> >>
       IN  \/ /\ out' = out \o warning \o done
              /\ UNCHANGED <<fs, dirs, procs>>
           \/ /\ j.kind = "dict"
              /\ dirs' = dirs \cup {SENTINEL_DIR}
              /\ procs' = Append(procs, "date -Iseconds")
              /\ \E chmod_ok \in BOOLEAN :
                    LET written == WriteFile(fs, SENTINEL_FILE, umask, json_dump(SentinelData(j.items)))
                    IN  IF chmod_ok
                        THEN /\ fs' = Chmod(written, SENTINEL_FILE, OwnerRW)
                             /\ out' = out \o done
                        ELSE /\ fs' = written
                             /\ out' = out \o warning \o done
    /\ exitCode' = 0
    /\ pc' = "exit"
    /\ UNCHANGED <<prog, checks, fs1, env, umask, reads, loaded, existsChecked, creds_data, creds_path, env0, fs0>>
    /\ UNCHANGED <<net, idp, idp0, modules, installs, credentials, cfgVars>>

\* Environments the orchestrator is run in.
SetupSecrets ==
    {Unset,
     Value(ObjText(Append(KeyPairs("KEY-A", "sa-a@dwh"), <<"private_key_id", "kid">>))),
     Value(ObjText(Without(KeyPairs("KEY-A", "sa-a@dwh"), "private_key"))),
     Value(<<"?">>)}

SetupAppCreds ==
    {Unset, Value(KeyPath), Value(JunkPath), Value(MissingPath),
     Value(ObjText(KeyPairs("KEY-B", "sa-b@dwh")))}

Tools == {"google-auth", "firebase-admin", "firebase", "npm"}

InitSetup ==
    /\ prog = "setup"
    /\ pc = "secret"
    /\ \E s \in SetupSecrets, g \in SetupAppCreds :
           env = [DefaultEnv EXCEPT ![SAJ] = s, ![GAC] = g]
    /\ fs = InitFiles(NoFile)
    /\ dirs = {}
    /\ umask = {"gw", "ow"}
    /\ out = << <<"Step 1: Checking Google Credentials">> >>
    /\ reads = {}
    /\ loaded = {}
    /\ existsChecked = {}
    /\ creds_data = <<>>
    /\ creds_path = <<>>
    /\ env0 = env
    /\ fs0 = fs
    /\ net = <<>>
    /\ idp \in {NoProvider, Provider("false", <<"old-id">>, <<"old-secret">>),
                Provider("true", <<"old-id">>, <<"old-secret">>)}
    /\ idp0 = idp
    /\ modules \in {Tools, Tools \ {"google-auth"}, Tools \ {"firebase-admin"}, Tools \ {"firebase"},
                    Tools \ {"firebase", "npm"}}
    /\ procs = <<>>
    /\ installs = 0
    /\ credentials = <<>>
    /\ exitCode = -1
    /\ CfgIdle
    /\ VfyIdle

NextSetup ==
    \/ NextCreds
    \/ MainCredentials
    \/ VerifyGoogleAuth
    \/ MainAuth
    \/ VerifyFirebaseAdmin
    \/ SetupFirebaseProject
    \/ DownloadFirebaseRules
    \/ SetupRequestRaises
    \/ VerifyGoogleAuthProvider
    \/ VerifyFirebaseCli
    \/ CreateSentinelFile

SpecSetup == InitSetup /\ [][NextSetup]_vars

(***************************************************************************)
(* setup_firebase_project called twice on the same directory               *)
(***************************************************************************)

\* Earlier contents of the target directory: each file absent or left with
\* other content.
StaleFile == File({"ur", "uw", "gr", "or"}, <<"stale">>)

\* setup_firebase_project, lines 300-357: the first call at "run1", the second
\* at "run2".  An OSError ends the caller.
ScaffoldRun ==
    /\ prog = "scaffold"
    /\ pc \in {"run1", "run2"}
    /\ \E n \in 0..Len(ScaffoldFiles) :
          /\ fs' = WriteScaffold(fs, umask, n)
          /\ dirs' = dirs \cup (IF n >= 1 THEN {FIREBASE_PROJECT_DIR} ELSE {})
                          \cup (IF n >= 4 THEN {"~/repos/digital-workshop-hub/public"} ELSE {})
          /\ IF n = Len(ScaffoldFiles)
             THEN /\ out' = out \o << <<"Step 5: Setting Up Firebase Project Directory">>,
                                      <<"Created: firebase.json">>, <<"Created: .firebaserc">>,
                                      <<"Created: firestore.indexes.json">>, <<"Created: public/">>,
                                      <<"Created: public/index.html (Google OAuth login page)">> >>
                  /\ pc' = IF pc = "run1" THEN "run2" ELSE "done"
                  /\ fs1' = IF pc = "run1" THEN fs' ELSE fs1
                  /\ exitCode' = exitCode
             ELSE /\ Crash
                  /\ fs1' = fs1
    /\ UNCHANGED <<prog, checks, env, umask, reads, loaded, existsChecked, creds_data, creds_path, env0, fs0>>
    /\ UNCHANGED <<net, idp, idp0, modules, procs, installs, credentials, cfgVars>>

InitScaffold ==
    /\ prog = "scaffold"
    /\ pc = "run1"
    /\ \E s \in {Unset, Value(ObjText(KeyPairs("KEY-A", "sa-a@dwh")))}, i \in {Unset, Value(<<"env-id">>)} :
           env = [DefaultEnv EXCEPT ![SAJ] = s, ![OAUTH_ID] = i]
    /\ \E stale \in SUBSET {ScaffoldFiles[i].path : i \in 1..Len(ScaffoldFiles)} :
           fs = [p \in Paths |-> IF p \in stale THEN StaleFile ELSE OtherFiles(p)]
    /\ dirs = {}
    /\ umask \in Umasks
    /\ out = <<>>
    /\ reads = {}
    /\ loaded = {}
    /\ existsChecked = {}
    /\ creds_data = <<>>
    /\ creds_path = <<>>
    /\ env0 = env
    /\ fs0 = fs
    /\ net = <<>>
    /\ idp \in {NoProvider, Provider("true", <<"old-id">>, <<"old-secret">>)}
    /\ idp0 = idp
    /\ modules = {}
    /\ procs = <<>>
    /\ installs = 0
    /\ credentials = <<>>
    /\ exitCode = -1
    /\ CfgIdle
    /\ VfyIdle

NextScaffold == ScaffoldRun

SpecScaffold == InitScaffold /\ [][NextScaffold]_vars

(***************************************************************************)
(* The verifier: verify_firebase.py                                        *)
(***************************************************************************)

\* verify_google_auth, lines 16-53.  Every exception, a missing package
\* included, is caught: the error is printed and the result is False.
VfyGoogleAuth ==
    /\ prog = "verify"
    /\ pc = "vfy_auth"
    /\ reads' = reads \cup (IF "google-auth" \in modules THEN {GAC} ELSE {})
    /\ LET dec == TokenDecision(env, fs, modules)
           head == <<"Verifying Google Auth...">>
       IN  \/ /\ dec = "import_error"
              /\ out' = out \o <<head, <<"  ERROR: No module named 'google'">> >>
              /\ UNCHANGED <<net, checks>>
           \/ /\ dec = "not_set"
              /\ out' = out \o <<head, <<"  ERROR: GOOGLE_APPLICATION_CREDENTIALS environment variable not set">> >>
              /\ UNCHANGED <<net, checks>>
           \/ /\ dec = "not_found"
              /\ out' = out \o <<head, <<"  ERROR: Credentials file not found:">> \o EnvGet(env, GAC).val>>
              /\ UNCHANGED <<net, checks>>
           \/ /\ dec = "refresh"
              /\ out' = out \o <<head, <<"  ERROR: could not load the key file">> >>
              /\ UNCHANGED <<net, checks>>
           \/ /\ dec = "refresh"
              /\ KeyFileLoadable(fs, EnvGet(env, GAC).val)
              /\ \E code \in {200, NoResponse} \cup ErrorCodes :
                    /\ net' = Append(net, Request("POST", TOKEN_URL, <<>>, code))
                    /\ checks' = [checks EXCEPT !.google_ok = (code = 200)]
                    /\ out' = out \o <<head, IF code = 200 THEN <<"  Google Auth: OK">>
                                             ELSE <<"  ERROR: token refresh failed">> >>
    /\ pc' = "vfy_admin"
    /\ UNCHANGED <<prog, fs1, env, fs, dirs, umask, loaded, existsChecked, creds_data, creds_path, env0, fs0>>
    /\ UNCHANGED <<idp, idp0, modules, procs, installs, credentials, exitCode, cfgVars>>

\* verify_firebase_admin, lines 56-86.  Certificate(None) raises when the
\* variable is unset; a key file that cannot be loaded raises too.
VfyFirebaseAdmin ==
    /\ prog = "verify"
    /\ pc = "vfy_admin"
    /\ reads' = reads \cup (IF "firebase-admin" \in modules THEN {GAC} ELSE {})
    /\ LET head == <<"Verifying Firebase Admin SDK...">>
           usable == /\ "firebase-admin" \in modules
                     /\ ~Falsy(EnvGet(env, GAC))
                     /\ KeyFileLoadable(fs, EnvGet(env, GAC).val)
       IN  \/ /\ out' = out \o <<head, <<"  ERROR: could not initialize the Admin SDK">> >>
              /\ UNCHANGED <<net, checks>>
           \/ /\ usable
              /\ \E code \in {200, NoResponse} \cup ErrorCodes :
                    /\ net' = Append(net, Request("GET", USERS_URL, <<>>, code))
                    /\ checks' = [checks EXCEPT !.firebase_ok = (code = 200)]
                    /\ out' = out \o <<head, IF code = 200 THEN <<"  Firebase Admin SDK: OK">>
                                             ELSE <<"  ERROR: could not list users">> >>
    /\ pc' = "vfy_provider"
    /\ UNCHANGED <<prog, fs1, env, fs, dirs, umask, loaded, existsChecked, creds_data, creds_path, env0, fs0>>
    /\ UNCHANGED <<idp, idp0, modules, procs, installs, credentials, exitCode, cfgVars>>

\* What verify_google_auth_provider prints for a response, lines 127-150.
VfyProviderMessages(response) ==
    IF response.code = 200
    THEN << <<"  Provider exists: True">>, <<"  Provider enabled:", BoolText(response.enabled = "true")>> >>
         \o (IF response.clientId # <<>> THEN << <<"  OAuth Client ID:">> \o response.clientId >> ELSE <<>>)
         \o (IF response.enabled = "true" THEN << <<"  Google Sign-In Provider: OK">> >>
             ELSE << <<"  Google Sign-In provider exists but is disabled">> >>)
    ELSE IF response.code = 404
    THEN << <<"  Provider exists: False">>, <<"  Google Sign-In provider not configured">> >>
    ELSE << <<"  Warning: Could not check provider status:", StatusText(response.code)>> >>

\* verify_google_auth_provider, lines 89-154: its own token, then the GET.
VfyProvider ==
    /\ prog = "verify"
    /\ pc = "vfy_provider"
    /\ reads' = reads \cup (IF "google-auth" \in modules THEN {GAC} ELSE {})
    /\ LET head == <<"Verifying Google Sign-In Provider...">>
           usable == /\ "google-auth" \in modules
                     /\ ~Falsy(EnvGet(env, GAC))
                     /\ KeyFileLoadable(fs, EnvGet(env, GAC).val)
           tokenPost(code) == Request("POST", TOKEN_URL, <<>>, code)
       IN  \/ /\ "google-auth" \in modules
              /\ Falsy(EnvGet(env, GAC))
              /\ out' = out \o <<head, <<"  ERROR: GOOGLE_APPLICATION_CREDENTIALS not set">> >>
              /\ UNCHANGED <<net, checks>>
           \/ /\ "google-auth" \notin modules \/ ~Falsy(EnvGet(env, GAC))
              /\ out' = out \o <<head, <<"  ERROR: could not load the key file">> >>
              /\ UNCHANGED <<net, checks>>
           \/ /\ usable
              /\ \E code \in {NoResponse} \cup ErrorCodes :
                    /\ net' = Append(net, tokenPost(code))
                    /\ out' = out \o <<head, <<"  ERROR: token refresh failed">> >>
              /\ UNCHANGED checks
           \/ /\ usable
              /\ net' = net \o <<tokenPost(200), Request("GET", PROVIDER_URL, <<>>, NoResponse)>>
              /\ out' = out \o <<head, <<"  ERROR: connection failed">> >>
              /\ UNCHANGED checks
           \/ /\ usable
              /\ \E response \in ProviderGetResponses(idp) :
                    /\ net' = net \o <<tokenPost(200), Request("GET", PROVIDER_URL, <<>>, response.code)>>
                    /\ out' = Say(out, head) \o VfyProviderMessages(response)
                    /\ checks' = [checks EXCEPT !.google_provider_ok =
                                      (response.code = 200 /\ response.enabled = "true")]
    /\ pc' = "vfy_summary"
    /\ UNCHANGED <<prog, fs1, env, fs, dirs, umask, loaded, existsChecked, creds_data, creds_path, env0, fs0>>
    /\ UNCHANGED <<idp, idp0, modules, procs, installs, credentials, exitCode, cfgVars>>

\* main, lines 167-184.
VfyMain ==
    /\ prog = "verify"
    /\ pc = "vfy_summary"
    /\ out' = out \o << <<"Summary:">>,
                        <<"  Google Auth (Service Account):", IF checks.google_ok THEN "OK" ELSE "FAILED">>,
                        <<"  Firebase Admin SDK:", IF checks.firebase_ok THEN "OK" ELSE "FAILED">>,
                        <<"  Google Sign-In Provider:", IF checks.google_provider_ok THEN "OK" ELSE "NOT CONFIGURED">>,
                        IF checks.google_ok /\ checks.firebase_ok
                        THEN (IF checks.google_provider_ok THEN <<"All checks passed!">>
                              ELSE <<"Core checks passed. Google Sign-In provider needs configuration.">>)
                        ELSE <<"Some checks failed. Please review the errors above.">> >>
    /\ exitCode' = IF checks.google_ok /\ checks.firebase_ok THEN 0 ELSE 1
    /\ pc' = "exit"
    /\ UNCHANGED <<prog, checks, fs1, env, fs, dirs, umask, reads, loaded, existsChecked, creds_data, creds_path, env0, fs0>>
    /\ UNCHANGED <<net, idp, idp0, modules, procs, installs, credentials, cfgVars>>

InitVerify ==
    /\ prog = "verify"
    /\ pc = "vfy_auth"
    /\ \E g \in {Unset, Value(KeyPath), Value(JunkPath), Value(MissingPath)},
          i \in {Unset, Value(<<"env-id">>)} :
           env = [DefaultEnv EXCEPT ![GAC] = g, ![OAUTH_ID] = i]
    /\ fs = InitFiles(NoFile)
    /\ out = <<>>
    /\ env0 = env
    /\ fs0 = fs
    /\ CredsIdle
    /\ net = <<>>
    /\ idp \in ProvidersBefore
    /\ idp0 = idp
    /\ modules \in {{"google-auth", "firebase-admin"}, {"google-auth"}, {"firebase-admin"}, {}}
    /\ procs = <<>>
    /\ installs = 0
    /\ credentials = <<>>
    /\ exitCode = -1
    /\ CfgIdle
    /\ VfyIdle

NextVerify ==
    \/ VfyGoogleAuth
    \/ VfyFirebaseAdmin
    \/ VfyProvider
    \/ VfyMain

SpecVerify == InitVerify /\ [][NextVerify]_vars

(***************************************************************************)
(* The three scripts together                                              *)
(***************************************************************************)

InitAll == InitConfig \/ InitSetup \/ InitVerify

NextAll == NextConfig \/ NextSetup \/ NextVerify

SpecAll == InitAll /\ [][NextAll]_vars

(***************************************************************************)
(* Claims about credential discovery (checked under SpecCreds)             *)
(***************************************************************************)

\* check_credentials has returned.
Returned == pc = "returned"

\* A value of an environment variable that holds a well-formed key.
HoldsValidKey(v) == ~Falsy(v) /\ ValidateKey(json_loads(v.val)).res = "ok"

\* The file at path holds a well-formed service-account key.
FileHoldsValidKey(path) ==
    /\ PathExists(fs, path)
    /\ ValidateKey(json_loads(fs[path].content)).res = "ok"

Printed(msg) == \E i \in 1..Len(out) : out[i] = msg

\* A "Created credentials file" line was printed: the path came from JSON content.
CreatedFromJson == \E i \in 1..Len(out) : out[i][1] = "Created credentials file:"

\* The secret branch ended in its `except Exception` handler after validating.
SecretIOFailed ==
    /\ Len(out) >= 3
    /\ out[2] = <<"Found GOOGLE_SERVICE_ACCOUNT_JSON secret">>
    /\ out[3] = <<"ERROR: Could not create credentials file">>

\* C1 (as claimed): whenever check_credentials returns a usable path, the
\* credential at that path has the four required fields and type
\* "service_account", whatever the source was.  The code validates JSON content
\* only; a file path is returned once os.path.exists says it exists.
C1_ReturnedCredentialIsValid ==
    (Returned /\ creds_path # <<>>) => FileHoldsValidKey(creds_path)

\* The secret is a JSON object without private_key.
SecretLacksPrivateKey ==
    /\ ~Falsy(env0[SAJ])
    /\ json_loads(env0[SAJ].val).kind = "dict"
    /\ ~DictHas(json_loads(env0[SAJ].val).items, "private_key")

MissingFieldReported ==
    \E i \in 1..Len(out) : out[i][1] = "ERROR: Invalid service account JSON - missing"

\* C2 (as claimed): if the JSON in GOOGLE_SERVICE_ACCOUNT_JSON is an object
\* without private_key, check_credentials reports a missing field and returns
\* no usable path, whatever GOOGLE_APPLICATION_CREDENTIALS holds.  The code
\* reports the field and then falls back to the other variable.
C2_MissingPrivateKeyYieldsNoPath ==
    (Returned /\ SecretLacksPrivateKey) => (MissingFieldReported /\ creds_path = <<>>)

\* The credential file holds the JSON object of the given text.
BuiltFrom(text) ==
    /\ creds_path = CREDENTIALS_FILE
    /\ PathExists(fs, CREDENTIALS_FILE)
    /\ json_loads(fs[CREDENTIALS_FILE].content) = json_loads(text)

Trimmed(t) ==
    LET inner == {i \in 1..Len(t) : ~IsWs(t[i])}
    IN  IF inner = {} THEN <<>>
        ELSE SubSeq(t, CHOOSE i \in inner : \A j \in inner : i <= j,
                       CHOOSE i \in inner : \A j \in inner : i >= j)

\* The fall back was taken with a value in GOOGLE_APPLICATION_CREDENTIALS.
FellBackOnValue == GAC \in reads /\ ~Falsy(env0[GAC])

ParsedInline == \E l \in loaded : l.src = GAC

\* C4 (as claimed): in the fall back, a value that starts with '{' is parsed
\* as JSON and never handed to os.path.exists, and a value that does not start
\* with '{' is treated only as a file path.  The code tests the value after
\* strip(), so JSON behind leading white space is parsed too.
C4_BraceDecidesOnRawValue ==
    FellBackOnValue =>
        IF StartsWithBrace(env0[GAC].val)
        THEN ParsedInline /\ existsChecked = {}
        ELSE ~ParsedInline /\ existsChecked = {env0[GAC].val}

\* C4 (amended): in the fall back, a value that starts with '{' once leading
\* and trailing white space is stripped is parsed and validated as JSON (the
\* stripped text) and never handed to os.path.exists; any other value is
\* handed, unstripped, to os.path.exists and never parsed.
C4_BraceDecidesOnStrippedValue ==
    FellBackOnValue =>
        IF StartsWithBrace(Trimmed(env0[GAC].val))
        THEN /\ {l \in loaded : l.src = GAC} = {[src |-> GAC, text |-> Trimmed(env0[GAC].val)]}
             /\ existsChecked = {}
        ELSE /\ ~ParsedInline
             /\ existsChecked = {env0[GAC].val}

\* JSON pasted behind white space was parsed; it was never checked as a path.
C4_Witness ==
    /\ Returned
    /\ FellBackOnValue
    /\ env0[GAC].val[1] = " "
    /\ ParsedInline
    /\ creds_path = CREDENTIALS_FILE

\* The text the credential was taken from, when it came from JSON content.
SuppliedText ==
    IF GAC \in reads THEN Trimmed(env0[GAC].val) ELSE env0[SAJ].val

\* C5: when discovery succeeds from JSON content (either variable), on return
\* the canonical file exists with exactly the owner read/write bits, its parsed
\* content equals the supplied object, the returned path is the canonical one
\* and GOOGLE_APPLICATION_CREDENTIALS is set to it.
C5_JsonSuccessPersists ==
    (Returned /\ CreatedFromJson) =>
        /\ creds_path = CREDENTIALS_FILE
        /\ PathExists(fs, CREDENTIALS_FILE)
        /\ fs[CREDENTIALS_FILE].mode = OwnerRW
        /\ json_loads(fs[CREDENTIALS_FILE].content) = json_loads(SuppliedText)
        /\ json_loads(SuppliedText).kind = "dict"
        /\ env[GAC] = Value(CREDENTIALS_FILE)

\* Pasted JSON replaced a canonical file that was there with wider permissions.
C5_Witness ==
    /\ Returned
    /\ CreatedFromJson
    /\ GAC \in reads
    /\ fs0[CREDENTIALS_FILE].exists
    /\ fs0[CREDENTIALS_FILE].mode # OwnerRW
    /\ fs[CREDENTIALS_FILE].content # fs0[CREDENTIALS_FILE].content

(***************************************************************************)
(* Claims about the setup orchestrator (checked under SpecSetup)           *)
(***************************************************************************)

\* check_credentials has returned None to main.
DiscoveryFailed == prog = "setup" /\ pc = "returned" /\ creds_path = <<>>

LaterStepFiles ==
    {FIREBASE_JSON, FIREBASERC, INDEXES_JSON, INDEX_HTML, FIRESTORE_RULES, STORAGE_RULES, SENTINEL_FILE}

NoLaterStepRan ==
    /\ net = <<>>
    /\ procs = <<>>
    /\ installs = 0
    /\ credentials = <<>>
    /\ \A p \in LaterStepFiles : fs[p] = fs0[p]

\* C6: when credential discovery fails in the setup orchestrator, the very
\* next step of the run is its end with exit code 1: discovery is not entered
\* again, and at the end no token request, no remote call, no subprocess, no
\* scaffold file write and no sentinel write has happened; nothing follows
\* the exit.
C6_DiscoveryFailureIsFatal ==
    [][/\ DiscoveryFailed => (pc' = "exit" /\ exitCode' = 1 /\ NoLaterStepRan')
       /\ (prog = "setup" /\ pc = "exit") => FALSE]_vars

C6_Witness ==
    /\ prog = "setup"
    /\ pc = "exit"
    /\ creds_path = <<>>
    /\ exitCode = 1
    /\ Printed(<<"[FAILED] Setup cannot continue without credentials">>)
    /\ NoLaterStepRan

(***************************************************************************)
(* Claims about the provider configurator (checked under SpecConfig)       *)
(***************************************************************************)

IsProviderGet(r) == r.method = "GET" /\ r.url = PROVIDER_URL

IsProviderWrite(r) == r.method \in {"POST", "PATCH"} /\ r.url \in {PROVIDER_URL, CREATE_URL}

ProviderWrites == {i \in 1..Len(net) : IsProviderWrite(net[i])}

\* The status code of the last provider GET before request i (0 if none).
GetCodeBefore(i) ==
    LET gets == {j \in 1..(i - 1) : IsProviderGet(net[j])}
    IN  IF gets = {} THEN 0 ELSE net[CHOOSE j \in gets : \A k \in gets : k <= j].code

\* C7 (as claimed): a POST is sent only after a GET that answered 404 and a
\* PATCH only after a GET that answered 200.  The code treats every status
\* other than 200 as "does not exist" and sends a POST after, say, a 500.
C7_WriteChosenFromClassification ==
    \A i \in ProviderWrites :
        GetCodeBefore(i) = IF net[i].method = "POST" THEN 404 ELSE 200

\* The OAuth client the operator supplied: the flag, else the variable.
SuppliedId == IF Falsy(args.client_id) THEN env0[OAUTH_ID] ELSE args.client_id

SuppliedSecret == IF Falsy(args.client_secret) THEN env0[OAUTH_SECRET] ELSE args.client_secret

\* A run without --verify that obtained a token has ended.
SetupRunEnded == prog = "config" /\ pc = "exit" /\ ~args.verify /\ token # <<>>

\* C8 (as claimed): without --verify, with a token and with both client id and
\* secret supplied, exactly one write carrying enabled=true and the supplied
\* id and secret is sent in every provider state: POST when absent, PATCH when
\* present (disabled or enabled).  The code sends nothing when the provider is
\* already enabled, because it calls enable_google_provider without client_id.
C8_SuppliedCredentialsAreWritten ==
    (/\ SetupRunEnded
     /\ ~Falsy(SuppliedId)
     /\ ~Falsy(SuppliedSecret)
     /\ GetCodeBefore(Len(net) + 1) \in {200, 404}) =>
        /\ Cardinality(ProviderWrites) = 1
        /\ \A i \in ProviderWrites :
              /\ net[i].method = IF idp0.exists THEN "PATCH" ELSE "POST"
              /\ net[i].body = <<[enabled |-> TRUE, clientId |-> SuppliedId.val,
                                  clientSecret |-> SuppliedSecret.val]>>

\* C9: in a run without --verify that obtained a token, when the client id or
\* the client secret is supplied neither by flag nor by variable, no POST or
\* PATCH is sent to the provider; the result is failure (exit code 1) when the
\* GET found no provider (404) and success (exit code 0) when it found one (200).
C9_NoCredentialsNoWrite ==
    (/\ prog = "config"
     /\ pc \in {"setup_report", "cfg_return", "exit"}
     /\ ~args.verify
     /\ token # <<>>
     /\ Falsy(SuppliedId) \/ Falsy(SuppliedSecret)) =>
        /\ ProviderWrites = {}
        /\ idp = idp0
        /\ GetCodeBefore(Len(net) + 1) = 404 => ~success
        /\ GetCodeBefore(Len(net) + 1) = 200 => success
        /\ pc = "exit" => exitCode = IF success THEN 0 ELSE 1

\* A disabled provider, a client id but no secret: guidance, no write, exit 0.
C9_Witness ==
    /\ SetupRunEnded
    /\ ~Falsy(SuppliedId)
    /\ Falsy(SuppliedSecret)
    /\ idp0.exists
    /\ idp0.enabled = "false"
    /\ GetCodeBefore(Len(net) + 1) = 200
    /\ ProviderWrites = {}
    /\ exitCode = 0

\* The provider GET has been answered and classified.
Classified == prog = "config" /\ \E i \in 1..Len(net) : IsProviderGet(net[i])

\* C10: check_google_provider_status classifies a 404 as absent (exists
\* false), a 200 whose body has enabled false or no enabled field as
\* present-disabled (exists true, enabled false), and a 200 whose body has
\* enabled true as present-enabled (exists true, enabled true).
C10_ThreeWayClassification ==
    Classified =>
        LET code == GetCodeBefore(Len(net) + 1)
        IN  /\ code = 404 => (~status.exists /\ ~status.enabled)
            /\ (code = 200 /\ idp0.enabled \in {"false", "missing"}) => (status.exists /\ ~status.enabled)
            /\ (code = 200 /\ idp0.enabled = "true") => (status.exists /\ status.enabled)

\* A 200 whose body has no enabled field was classified present-disabled.
C10_Witness ==
    /\ Classified
    /\ GetCodeBefore(Len(net) + 1) = 200
    /\ idp0.enabled = "missing"
    /\ status.exists
    /\ ~status.enabled
\* A run with --verify has ended.
VerifyRunEnded == prog = "config" /\ args.verify /\ pc = "exit"

ConfigGetCodes == {net[i].code : i \in {j \in 1..Len(net) : net[j].url = CONFIG_URL}}

\* C20: the configurator run with --verify exits 0 exactly when a token was
\* obtained, the Identity Platform config GET answered 200 or 404, and the
\* provider GET found the provider (200, enabled or disabled); it exits 1 when
\* there is no token, when the config GET answered anything else, and when the
\* provider GET answered 404 or failed.
C20_VerifyExitCode ==
    VerifyRunEnded =>
        /\ exitCode \in {0, 1}
        /\ exitCode = 0 <=> (/\ token # <<>>
                             /\ ConfigGetCodes \in {{200}, {404}}
                             /\ GetCodeBefore(Len(net) + 1) = 200)

\* --verify on a project without Identity Platform config and with a disabled
\* provider ends with 0.
C20_Witness ==
    /\ VerifyRunEnded
    /\ exitCode = 0
    /\ ConfigGetCodes = {404}
    /\ status.exists
    /\ ~status.enabled

(***************************************************************************)
(* Claims about scaffold generation (checked under SpecScaffold)           *)
(***************************************************************************)

ScaffoldPaths == {ScaffoldFiles[i].path : i \in 1..Len(ScaffoldFiles)}

\* Both calls of setup_firebase_project have returned.
RanTwice == prog = "scaffold" /\ pc = "done"

\* C16: after setup_firebase_project ran twice on the same directory, from
\* any earlier contents, each of firebase.json, .firebaserc,
\* firestore.indexes.json and public/index.html holds the same content as after
\* the first run, that content is the fixed text whatever the environment
\* variables and the remote state are, and no request was sent and no
\* subprocess run.
C16_ScaffoldIsIdempotent ==
    RanTwice =>
        /\ \A i \in 1..Len(ScaffoldFiles) :
              /\ fs[ScaffoldFiles[i].path].exists
              /\ fs[ScaffoldFiles[i].path].content = fs1[ScaffoldFiles[i].path].content
              /\ fs[ScaffoldFiles[i].path].content = ScaffoldFiles[i].content
        /\ net = <<>>
        /\ procs = <<>>
        /\ env = env0
        /\ idp = idp0

\* Two runs over a directory that held other content in every file, with a
\* variable set and a provider configured.
C16_Witness ==
    /\ RanTwice
    /\ \A p \in ScaffoldPaths : fs0[p] = StaleFile /\ fs[p].content # fs0[p].content
    /\ env0[OAUTH_ID].set
    /\ idp0.exists
(***************************************************************************)
(* Claims about all three scripts (checked under SpecAll)                  *)
(***************************************************************************)

\* How the service answered the provider GET of this run: "none" while no GET
\* was answered.
ProviderOutcome ==
    LET code == GetCodeBefore(Len(net) + 1)
    IN  IF code = NoResponse THEN "none"
        ELSE IF code = 404 THEN "absent"
        ELSE IF code = 200 THEN (IF idp0.enabled = "true" THEN "enabled" ELSE "disabled")
        ELSE "error"

\* Some printed line starts with this text.
PrintedLine(start) == \E i \in 1..Len(out) : Len(out[i]) >= 1 /\ out[i][1] = start

\* The outcome as read from the record check_google_provider_status returned.
ReadFromRecord ==
    IF status.exists THEN (IF status.enabled THEN "enabled" ELSE "disabled")
    ELSE IF status.has_error THEN "error"
    ELSE "absent"

\* The outcome as read from what --verify printed.
ReadFromVerifyOutput ==
    IF PrintedLine("Warning: Could not check Google provider:") THEN "error"
    ELSE IF Printed(<<"  Provider exists:", "False">>) THEN "absent"
    ELSE IF Printed(<<"  Provider enabled:", "False">>) THEN "disabled"
    ELSE "enabled"

\* The outcome as read from what the orchestrator printed.
ReadFromSetupOutput ==
    IF PrintedLine("Warning: Could not check Google provider status:") THEN "error"
    ELSE IF Printed(<<"Google Sign-In provider: Not configured">>) THEN "absent"
    ELSE IF Printed(<<"Google Sign-In provider exists but is disabled">>) THEN "disabled"
    ELSE "enabled"

\* The outcome as read from what the verifier printed.
ReadFromVerifierOutput ==
    IF PrintedLine("  Warning: Could not check provider status:") THEN "error"
    ELSE IF Printed(<<"  Google Sign-In provider not configured">>) THEN "absent"
    ELSE IF Printed(<<"  Google Sign-In provider exists but is disabled">>) THEN "disabled"
    ELSE "enabled"

\* C11: in every provider check the outcomes not-configured (404), disabled
\* (200 with enabled false) and error (any other status, with or without a
\* response body) give pairwise different output: the outcome can be read back
\* from the record the configurator's check returned, from what --verify
\* printed, from what the orchestrator printed and from what the verifier
\* printed.
C11_OutcomesAreDistinguishable ==
    ProviderOutcome # "none" =>
        /\ prog = "config" => ReadFromRecord = ProviderOutcome
        /\ (prog = "config" /\ args.verify) => ReadFromVerifyOutput = ProviderOutcome
        /\ prog = "setup" => ReadFromSetupOutput = ProviderOutcome
        /\ prog = "verify" => ReadFromVerifierOutput = ProviderOutcome

\* --verify after a GET that failed with an empty response body.
C11_Witness ==
    /\ prog = "config"
    /\ args.verify
    /\ pc = "exit"
    /\ ProviderOutcome = "error"
    /\ status.has_error
    /\ status.error = ""
    /\ ReadFromVerifyOutput = "error"
\* Every request of the run was answered with a status code.
AllAnswered == \A i \in 1..Len(net) : net[i].code # NoResponse

\* The orchestrator has verified credentials and auth and written the scaffold.
PastScaffold ==
    /\ prog = "setup"
    /\ credentials # <<>>
    /\ Printed(<<"Created: public/index.html (Google OAuth login page)">>)

\* C12 (as claimed): a verifier run performs all three checks whatever their
\* results, and an orchestrator run that got past auth verification and the
\* scaffold performs every later step (rules download, provider check, CLI
\* check, sentinel) whatever the admin SDK check, the rules download, the
\* provider check and the CLI check answered.  The code leaves the CLI check
\* with an uncaught FileNotFoundError when neither firebase nor npm is
\* installed, and the run ends before the sentinel step.
C12_ChecksAreIndependent ==
    /\ (prog = "verify" /\ pc = "exit") =>
          /\ Printed(<<"Verifying Google Auth...">>)
          /\ Printed(<<"Verifying Firebase Admin SDK...">>)
          /\ Printed(<<"Verifying Google Sign-In Provider...">>)
    /\ (PastScaffold /\ AllAnswered /\ pc = "exit") =>
          /\ Printed(<<"Step 4: Downloading Firebase Rules">>)
          /\ Printed(<<"Step 6: Verifying Google Sign-In Provider">>)
          /\ Printed(<<"Step 7: Verifying Firebase CLI">>)
          /\ Printed(<<"Setup Complete!">>)
(***************************************************************************)
(* Claims about the verifier (checked under SpecVerify)                    *)
(***************************************************************************)

\* C13 (as claimed): whenever verify_google_auth succeeded the verifier exits
\* 0, whatever the admin SDK user listing and the provider check gave.  The
\* code exits 0 only if the admin SDK check succeeded too (line 175).
C13_ExitDependsOnAuthOnly ==
    (prog = "verify" /\ pc = "exit" /\ checks.google_ok) => exitCode = 0
(***************************************************************************)
(* Further claims about the setup orchestrator (checked under SpecSetup)   *)
(***************************************************************************)

SetupEnded == prog = "setup" /\ pc = "exit"

ScaffoldDone == Printed(<<"Created: public/index.html (Google OAuth login page)">>)

\* C14 (as claimed): the orchestrator's exit code is 1 exactly when credential
\* discovery gave no path, auth verification gave no token or the scaffold was
\* not set up, and 0 otherwise, whatever the admin SDK check, the rules
\* download, the provider check, the CLI check and the sentinel write did.
\* The code exits 1 from the CLI check when neither firebase nor npm is
\* installed.
C14_ExitCodeOfSetup ==
    (SetupEnded /\ AllAnswered) =>
        /\ exitCode \in {0, 1}
        /\ exitCode = 1 <=> (creds_path = <<>> \/ credentials = <<>> \/ ~ScaffoldDone)

\* The secret the run was started with is a well-formed service-account
\* object of this project.
SecretIsProjectKey ==
    /\ HoldsValidKey(env0[SAJ])
    /\ DictGet(json_loads(env0[SAJ].val).items, "project_id") = StrAtom(PROJECT_ID)

\* The sentinel file records setup_complete true and this project.
SentinelRecordsProject ==
    /\ PathExists(fs, SENTINEL_FILE)
    /\ LET j == json_loads(fs[SENTINEL_FILE].content)
       IN  /\ j.kind = "dict"
           /\ DictGet(j.items, "setup_complete") = Atom("true")
           /\ DictGet(j.items, "project_id") = StrAtom(PROJECT_ID)

\* C17 (as claimed): with a well-formed secret of this project and auth
\* verified, every run that exits 0 leaves the five scaffold files, the
\* canonical credential file and a sentinel recording setup_complete true and
\* the project id, whatever the Rules API, the provider endpoint and the CLI
\* answered.  The code exits 0 without firestore.rules and storage.rules when
\* the Rules API refuses, and without a sentinel when writing it fails.
C17_EndToEndArtifacts ==
    (SetupEnded /\ exitCode = 0 /\ SecretIsProjectKey /\ credentials # <<>>) =>
        /\ \A p \in {FIREBASE_JSON, FIREBASERC, INDEXES_JSON, FIRESTORE_RULES, STORAGE_RULES} :
              PathExists(fs, p)
        /\ PathExists(fs, CREDENTIALS_FILE)
        /\ SentinelRecordsProject

InstallCommands ==
    {"pip install google-auth google-auth-oauthlib requests -q", "pip install firebase-admin -q",
     "npm install -g firebase-tools"}

TimesRun(command) == Cardinality({i \in 1..Len(procs) : procs[i] = command})

\* C18 (as claimed): in verify_google_auth, verify_firebase_admin and
\* verify_firebase_cli at most one install command is run per call.  The code
\* re-enters the function after every install, so a dependency that is still
\* missing makes it install again.
C18_InstallAtMostOnce ==
    prog = "setup" => \A c \in InstallCommands : TimesRun(c) <= 1

StepHeaders ==
    << <<"Step 1: Checking Google Credentials">>, <<"Step 2: Verifying Google Auth">>,
       <<"Step 3: Verifying Firebase Admin SDK">>, <<"Step 5: Setting Up Firebase Project Directory">>,
       <<"Step 4: Downloading Firebase Rules">>, <<"Step 6: Verifying Google Sign-In Provider">>,
       <<"Step 7: Verifying Firebase CLI">> >>

IsStepHeader(msg) == \E j \in 1..Len(StepHeaders) : StepHeaders[j] = msg

StepRank(msg) == CHOOSE j \in 1..Len(StepHeaders) : StepHeaders[j] = msg

\* The step headers were printed in the order of main.
StepsInOrder ==
    LET printed == SelectSeq(out, IsStepHeader)
    IN  \A i \in 1..(Len(printed) - 1) : StepRank(printed[i]) <= StepRank(printed[i + 1])

ServiceUrls == {RELEASES_URL, RULESET_URL, PROVIDER_URL, USERS_URL}

\* C19: in every orchestrator run the steps occur in the order of main; a
\* scaffold or rules file is written and a Rules-API or Identity-Toolkit
\* request sent only after credential discovery returned a path and auth
\* verification a token; the sentinel is written only after scaffold
\* generation, the rules download attempt, the provider check and the CLI
\* check have finished.
C19_StepOrder ==
    prog = "setup" =>
        /\ StepsInOrder
        /\ ((\E p \in LaterStepFiles : fs[p] # fs0[p]) \/ (\E i \in 1..Len(net) : net[i].url \in ServiceUrls))
              => (creds_path # <<>> /\ credentials # <<>>)
        /\ fs[SENTINEL_FILE] # fs0[SENTINEL_FILE] =>
              /\ ScaffoldDone
              /\ \E i \in 1..Len(net) : net[i].url = RELEASES_URL
              /\ \E i \in 1..Len(net) : net[i].url = PROVIDER_URL
              /\ \E i \in 1..Len(procs) : procs[i] = "firebase --version"
              /\ pc = "exit"

\* A run that wrote the sentinel after a refused rules download.
C19_Witness ==
    /\ SetupEnded
    /\ exitCode = 0
    /\ PathExists(fs, SENTINEL_FILE)
    /\ \E i \in 1..Len(net) : net[i].url = RELEASES_URL /\ net[i].code = 403
    /\ \E i \in 1..Len(net) : net[i].url = USERS_URL

(***************************************************************************)
(* Claims about the read-only modes (checked under SpecAll)                *)
(***************************************************************************)

ReadOnlyRun == (prog = "config" /\ args.verify) \/ prog = "verify"

\* C15: a configurator run with --verify and every verifier run send only GET
\* requests apart from the token request (never a POST or PATCH to the provider
\* or config endpoints), write no file and create no directory, and leave the
\* remote provider configuration and the GOOGLE_OAUTH_* variables as they
\* were, also when --client-id / --client-secret are given.
C15_ReadOnlyModes ==
    ReadOnlyRun =>
        /\ \A i \in 1..Len(net) : net[i].method = "GET" \/ (net[i].method = "POST" /\ net[i].url = TOKEN_URL)
        /\ ProviderWrites = {}
        /\ fs = fs0
        /\ dirs = {}
        /\ idp = idp0
        /\ env[OAUTH_ID] = env0[OAUTH_ID]
        /\ env[OAUTH_SECRET] = env0[OAUTH_SECRET]

\* --verify with both flags given has ended after its provider GET.
C15_Witness ==
    /\ prog = "config"
    /\ args.verify
    /\ pc = "exit"
    /\ ~Falsy(args.client_id)
    /\ ~Falsy(args.client_secret)
    /\ \E i \in 1..Len(net) : IsProviderGet(net[i]) /\ net[i].code = 200
    /\ env = env0
(***************************************************************************)
(* Further claims about credential discovery (checked under SpecCreds)     *)
(***************************************************************************)

\* The file at path holds a JSON object with a private key.
HoldsPrivateKey(path) ==
    /\ PathExists(fs, path)
    /\ LET j == json_loads(fs[path].content)
       IN  j.kind = "dict" /\ DictHas(j.items, "private_key")

\* C21 (as claimed): in every state of credential discovery, the states
\* between its file-system steps included, the canonical credential file does
\* not hold the service-account JSON while its permission bits allow access
\* to anyone but the owner.  The code writes the JSON into a file opened with
\* the default mode (or with the mode an existing file had) and restricts the
\* mode only afterwards, in a separate step that can also fail.
C21_KeyNeverExposed ==
    HoldsPrivateKey(CREDENTIALS_FILE) => fs[CREDENTIALS_FILE].mode \subseteq OwnerRW
\* C23 (as claimed): whenever check_credentials returns no path, the
\* canonical credential file and GOOGLE_APPLICATION_CREDENTIALS are exactly as
\* they were before the call.  The code returns None after an I/O error that
\* follows open(), and then the file has been created or truncated, possibly
\* written, and not restored.
C23_FailureLeavesNoTrace ==
    (Returned /\ creds_path = <<>>) =>
        /\ fs[CREDENTIALS_FILE] = fs0[CREDENTIALS_FILE]
        /\ env[GAC] = env0[GAC]

(***************************************************************************)
(* Claims about the sentinel (checked under SpecSetup)                     *)
(***************************************************************************)

\* This run wrote the sentinel file.
SentinelWritten == prog = "setup" /\ fs[SENTINEL_FILE] # fs0[SENTINEL_FILE]

\* C22 (as claimed): whenever the orchestrator writes the sentinel, the
\* credentials_file it records is the path check_credentials returned, for
\* every credential source.  The code records the constant CREDENTIALS_FILE
\* (line 623), which is not the path used when GOOGLE_APPLICATION_CREDENTIALS
\* names a file.
C22_SentinelRecordsPathUsed ==
    SentinelWritten =>
        LET j == json_loads(fs[SENTINEL_FILE].content)
        IN  /\ j.kind = "dict"
            /\ DictGet(j.items, "credentials_file") = StrAtom(creds_path[1])
=============================================================================
